
---------------------------- MODULE Spec2Model ----------------------------
(***************************************************************************)
(* Model of the device transport and REPL protocol engine of               *)
(* pystem-mini-bot (class RobotController, robot.js = src/unnamed/part_002).*)
(*                                                                         *)
(* Text is a sequence of tokens.  A token is one character wherever the    *)
(* code looks at single characters (line terminators, blanks, '.', '>',    *)
(* hex digits, payload characters) and one fixed literal of the source     *)
(* where the code only ever handles that literal as a whole.               *)
(***************************************************************************)
EXTENDS Integers, Sequences, FiniteSets, TLC

VARIABLES
    connected,      \* this.connected
    lastLineEcho,   \* this.lastLineEcho
    rup,            \* locals of the running readUntilPrompt call
    received,       \* history: all text handed to that call by its polls
    emptyRun,       \* history: empty polls since the last non-empty poll
    ex,             \* arguments and locals of the running executeCodeRaw call
    lineResult,     \* the result of the last sendLine awaited by executeCodeRaw
    wire,           \* history: the texts handed to writer.write, in order
    exLog,          \* history: per line written, its index, attempt and text
    up,             \* arguments and locals of the running uploadCode call
    dl,             \* arguments and locals of the running downloadCode call
    scripts,        \* history: the arguments of the wrapCodeHex calls of uploadCode
    dev,            \* the remote interpreter: its variables and its files
    stream,         \* the remote's output that no poll has handed over yet
    port,           \* this.port: 0 for null, else the number of the connection
    reader,         \* this.reader: 0 for null, else the connection it reads
    writer,         \* this.writer: 0 for null, else the connection it writes
    backgroundReadActive,   \* this.backgroundReadActive
    backgroundReadPromise,  \* this.backgroundReadPromise: 0 for null, else a loop
    serialBuffer,   \* this.serialBuffer: entries with their arrival number
    bufferConsumers,\* this.bufferConsumers: the consumers registered
    consumers,      \* the consumer objects in use: their position
    loops,          \* the backgroundReadLoop calls made so far and where they stand
    conn,           \* the running connect call
    disc,           \* the running disconnect call
    ops,            \* history: what the last disconnect call did, in order
    streams,        \* per connection, the state of its port and readable stream
    arrived,        \* history: the number of chunks the reader loops have stored
    created,        \* history: the number of consumers created
    senders,        \* the sendLine and robotSendRaw calls made so far
    fileManager     \* the page's FileManager, with the editor it is given

scanVars == <<lastLineEcho, rup, received, emptyRun>>
execVars == <<ex, lineResult, wire, exLog>>
xferVars == <<up, dl, scripts, dev, stream>>
linkVars == <<port, reader, writer, backgroundReadActive, backgroundReadPromise,
              serialBuffer, bufferConsumers, consumers, loops, conn, disc, ops,
              streams, arrived, created, senders>>
vars == <<connected, scanVars, execVars, xferVars, linkVars, fileManager>>

-----------------------------------------------------------------------------
(* Bounds of the model *)

\* total number of tokens the prompt scanner receives in one call
MaxStream == 5
\* largest number of tokens one poll delivers
MaxChunkLen == 2
\* largest number of lines of a payload handed to executeCodeRaw directly
MaxLines == 3
\* half of the encoder's chunk size (512 in the source, scaled down)
HalfChunk == 2
\* largest number of characters of an enumerated upload payload
MaxPayload == 1
\* the longest response to the print command of a download, in tokens
MaxResponse == 4
\* the connections one controller makes
MaxConnects == 2
\* the entries the buffer is cut to (5000 in the source, line 208)
BufferKeep == 2
\* the readUntilPrompt calls made on the connections
MaxCalls == 2
\* the longest payload handed to wrapCodeHex on its own, in bytes
MaxWrapLen == 5
\* the sendLine and robotSendRaw calls the page makes on a shared connection
MaxSenders == 2
\* the chunks the transport delivers while those calls run
ShareArrivals == 2
\* the readNew and reset calls made on one consumer
MaxConsumerOps == 2
\* the chunks that arrive while connections are made and ended
ConnArrivals == 1

-----------------------------------------------------------------------------
(* JavaScript string operations on token sequences (0-based indices) *)

CR == "\r"
LF == "\n"
SP == " "
TAB == "\t"
CRLF == <<CR, LF>>

Min(a, b) == IF a < b THEN a ELSE b
Max(a, b) == IF a > b THEN a ELSE b

\* String.prototype.substring(a, b)
Substring(s, a, b) ==
    LET lo == Max(0, Min(Min(a, b), Len(s)))
        hi == Max(0, Min(Max(a, b), Len(s)))
    IN  SubSeq(s, lo + 1, hi)

\* String.prototype.substring(a)
SubstringFrom(s, a) == Substring(s, a, Len(s))

\* String.prototype.startsWith / endsWith
StartsWith(s, t) == Len(t) <= Len(s) /\ SubSeq(s, 1, Len(t)) = t
EndsWith(s, t) == Len(t) <= Len(s) /\ SubSeq(s, Len(s) - Len(t) + 1, Len(s)) = t

\* String.prototype.indexOf: the first position of t in s, or -1
IndexOf(s, t) ==
    LET hits == {i \in 0..(Len(s) - Len(t)) : SubSeq(s, i + 1, i + Len(t)) = t}
    IN  IF hits = {} THEN -1 ELSE CHOOSE i \in hits : \A j \in hits : i <= j

\* String.prototype.includes
Includes(s, t) == IndexOf(s, t) >= 0

\* the white space String.prototype.trim removes
IsSpace(c) == c \in {SP, TAB, CR, LF}

\* String.prototype.trim
Trim(s) ==
    LET keep == {i \in 1..Len(s) : ~IsSpace(s[i])}
    IN  IF keep = {} THEN <<>>
        ELSE SubSeq(s, CHOOSE i \in keep : \A j \in keep : i <= j,
                       CHOOSE i \in keep : \A j \in keep : i >= j)

-----------------------------------------------------------------------------
(* The controller as its constructor leaves it, lines 7-21 *)

LinkFresh ==
    /\ port = 0
    /\ reader = 0
    /\ writer = 0
    /\ backgroundReadActive = FALSE
    /\ backgroundReadPromise = 0
    /\ serialBuffer = <<>>
    /\ bufferConsumers = {}
    /\ consumers = <<>>
    /\ loops = <<>>
    /\ conn = [pc |-> "idle", port |-> 0, result |-> "none"]
    /\ disc = [pc |-> "idle", rd |-> 0, ok |-> TRUE, wr |-> 0, pt |-> 0, error |-> "none"]
    /\ ops = <<>>
    /\ streams = [g \in 1..MaxConnects |-> "none"]
    /\ arrived = 0
    /\ created = 0
    /\ senders = <<>>

-----------------------------------------------------------------------------
(* readUntilPrompt: the prompt scanner *)

\* null, and a returned string, as values that can be told apart
Null == <<>>
Some(text) == <<text>>

\* file.js lines 3-8: the FileManager as constructed, nothing stored and no
\* editor; shown records, per file, the last content the editor showed for it
FmConstructed ==
    [files |-> <<>>, currentFile |-> Null, editor |-> Null, shown |-> <<>>]

ContinuationMarker == <<".", ".", ".">>
PromptMarker == <<">", ">", ">">>

\* the locals of readUntilPrompt before its loop (lines 290-293)
RupFresh ==
    [receiveMode |-> 0, pending |-> <<>>, retryCount |-> 0, output |-> <<>>,
     status |-> "running", result |-> Null]

\* no readUntilPrompt call has been made
RupIdle == [RupFresh EXCEPT !.status = "idle"]

\* EmptyPoll with the timeout handing back the text so far instead of null
EmptyPollReturnsOutput(s) ==
    IF s.retryCount + 1 > 1
    THEN [s EXCEPT !.retryCount = @ + 1, !.status = "returned", !.result = Some(s.output)]
    ELSE [s EXCEPT !.retryCount = @ + 1]

\* EmptyPoll that does not count the poll
EmptyPollNotCounted(s) == s

\* lines 299-305: the poll returned ''
EmptyPoll(s) ==
    IF s.retryCount + 1 > 1
    THEN [s EXCEPT !.retryCount = @ + 1, !.status = "null", !.result = Null]
    ELSE [s EXCEPT !.retryCount = @ + 1]

\* lines 327-344: the data phase on processData (receiveMode 1)
DataPhase(s, processData) ==
    LET stripped == Trim(processData)
    IN  IF EndsWith(stripped, ContinuationMarker) \/ EndsWith(stripped, PromptMarker)
        THEN LET kept == Substring(stripped, 0, Len(stripped) - 3)
             IN  [s EXCEPT !.receiveMode = 2, !.pending = <<>>,
                           !.output = @ \o kept,
                           !.status = "returned", !.result = Some(s.output \o kept)]
        ELSE IF EndsWith(processData, <<".">>) \/ EndsWith(processData, <<">">>)
        THEN [s EXCEPT !.pending = processData]
        ELSE [s EXCEPT !.pending = <<>>, !.output = @ \o processData]

\* lines 312-325: the echo phase on processData (receiveMode 0); the second
\* component is the echo when the line terminator has been found
EchoPhase(s, processData) ==
    LET idx == IndexOf(processData, CRLF)
    IN  IF idx < 0
        THEN <<[s EXCEPT !.pending = processData], Null>>
        ELSE LET rest == SubstringFrom(processData, idx + 2)
                 s1 == [s EXCEPT !.receiveMode = 1, !.pending = <<>>]
             IN  <<IF rest = <<>> THEN s1 ELSE DataPhase(s1, rest),
                   Some(Substring(processData, 0, idx))>>

\* lines 296-345: one iteration of the loop, on the result of its poll
RupIteration(s, data) ==
    IF ~(s.retryCount < 3)
    THEN <<[s EXCEPT !.status = "returned", !.result = Some(s.output)], Null>>
    ELSE IF data = <<>>
    THEN <<EmptyPoll(s), Null>>
    ELSE LET processData == IF s.pending # <<>> THEN s.pending \o data ELSE data
         IN  IF s.receiveMode = 0
             THEN EchoPhase(s, processData)
             ELSE <<DataPhase(s, processData), Null>>

\* lines 296-345 as a step of the call: the poll handed over data
RupStep(data) ==
    /\ rup.status = "running"
    /\ LET r == RupIteration(rup, data)
       IN  /\ rup' = r[1]
           /\ lastLineEcho' = IF r[2] = Null THEN lastLineEcho ELSE r[2][1]
    /\ received' = received \o data
    /\ emptyRun' = IF data = <<>> THEN emptyRun + 1 ELSE 0

\* lines 284-293 in a connected controller: a new call starts
RupBegin ==
    /\ rup' = RupFresh
    /\ received' = <<>>
    /\ emptyRun' = 0
    /\ UNCHANGED lastLineEcho

-----------------------------------------------------------------------------
(* executeCodeRaw: the raw executor *)

\* '\x03', the interrupt character
CtrlC == "^C"
\* the reserved tokens of lines 455, 457 and 466
Sentinel == <<"_EMPTY_">>
ExecMarker == <<"exec(">>
Traceback == <<"Traceback">>

\* code.replace(/\r/g, '\n'), line 446
ReplaceCR(code) == [i \in 1..Len(code) |-> IF code[i] = CR THEN LF ELSE code[i]]

RECURSIVE Split(_, _)
\* String.prototype.split on a one-token separator, line 447
Split(s, sep) ==
    LET cut == IndexOf(s, <<sep>>)
    IN  IF cut < 0 THEN <<s>>
        ELSE <<Substring(s, 0, cut)>> \o Split(SubstringFrom(s, cut + 1), sep)

\* lines 446-447
PayloadLines(code) == Split(ReplaceCR(code), LF)

\* ActualLine with the sentinel sent as it stands
ActualLineLiteral(trimmedLine) == trimmedLine

\* line 455
ActualLine(trimmedLine) == IF trimmedLine = Sentinel THEN <<>> ELSE trimmedLine

\* NextLine without the skip of blank lines
NextLineNoSkip(lines, i) == IF i <= Len(lines) THEN i ELSE 0

\* lines 449-453: the first line at or after i that is not skipped, 0 if none
NextLine(lines, i) ==
    LET rest == {j \in i..Len(lines) : Trim(lines[j]) # <<>>}
    IN  IF rest = {} THEN 0 ELSE CHOOSE j \in rest : \A k \in rest : j <= k

\* SingleShot that looks at the retry flag only
SingleShotRetryFlagOnly(retry, actualLine) == ~retry

\* line 457: the line is sent once, without the retry loop
SingleShot(retry, actualLine) == ~retry \/ StartsWith(actualLine, ExecMarker)

\* LineAccepted that takes any non-null response
LineAcceptedNonNull(result) == result # Null

\* line 466: the response that ends the retry loop
LineAccepted(result) == result # Null /\ ~Includes(result[1], Traceback)

\* line 464: the attempts of the retry loop
RetryAttempts == 3

\* the fields of a call; drained records what the drain of line 440 returned
\* ("no" before it has returned, then "null" or "text")
ExIdle ==
    [pc |-> "idle", code |-> <<>>, retry |-> FALSE, lines |-> <<>>, i |-> 0,
     attempt |-> 0, error |-> "none", drained |-> "no"]

\* sendLine (lines 358-367) called from the loop for line j, attempt a: the
\* write of the line and its terminator
SendLineFrom(e, j, a) ==
    LET actualLine == ActualLine(Trim(e.lines[j]))
    IN  /\ ex' = [e EXCEPT !.pc = "await", !.i = j, !.attempt = a]
        /\ wire' = Append(wire, actualLine \o CRLF)
        /\ exLog' = Append(exLog, [line |-> j, attempt |-> a, text |-> actualLine])

\* lines 449-475: the loop runs on from line i to its next await or its end
ContinueFrom(e, i) ==
    LET j == NextLine(e.lines, i)
    IN  IF j = 0
        THEN /\ ex' = [e EXCEPT !.pc = "done", !.i = Len(e.lines) + 1, !.attempt = 0]
             /\ UNCHANGED <<wire, exLog>>
        ELSE SendLineFrom(e, j, 0)

\* lines 424-433: the call; it throws when not connected, else writes the
\* first interrupt
ExecBegin(code, retry) ==
    /\ ex.pc \in {"idle", "done", "threw"}
    /\ lineResult' = Null
    /\ exLog' = <<>>
    /\ IF ~connected
       THEN /\ ex' = [ExIdle EXCEPT !.pc = "threw", !.code = code, !.retry = retry,
                                    !.error = "Not connected to device"]
            /\ UNCHANGED wire
       ELSE /\ ex' = [ExIdle EXCEPT !.pc = "sleep", !.code = code, !.retry = retry]
            /\ wire' = Append(wire, <<CtrlC>>)

\* lines 435-440: after 300 ms the second interrupt is written and the drain
\* by readUntilPrompt starts
ExecSecondInterrupt ==
    /\ ex.pc = "sleep"
    /\ ex' = [ex EXCEPT !.pc = "drain"]
    /\ wire' = Append(wire, <<CtrlC>>)
    /\ UNCHANGED <<lineResult, exLog>>

\* ExecDrained that goes on to the payload whatever the drain returned
ExecDrainedNullTolerated(data) ==
    /\ ex.pc = "drain"
    /\ UNCHANGED lineResult
    /\ ContinueFrom([ex EXCEPT !.lines = PayloadLines(ex.code),
                               !.drained = IF data = Null THEN "null" ELSE "text"], 1)

\* lines 440-449: the drain returns data; null is fatal, else the payload is
\* split and the loop starts
ExecDrained(data) ==
    /\ ex.pc = "drain"
    /\ UNCHANGED lineResult
    /\ IF data = Null
       THEN /\ ex' = [ex EXCEPT !.pc = "threw", !.error = "Device is not responding",
                                !.drained = "null"]
            /\ UNCHANGED <<wire, exLog>>
       ELSE ContinueFrom([ex EXCEPT !.lines = PayloadLines(ex.code), !.drained = "text"], 1)

\* lines 457-474: sendLine returns result for the line awaited
ExecLineResult(result) ==
    /\ ex.pc = "await"
    /\ lineResult' = result
    /\ LET actualLine == ActualLine(Trim(ex.lines[ex.i]))
       IN  IF SingleShot(ex.retry, actualLine)
           THEN IF result = Null
                THEN /\ ex' = [ex EXCEPT !.pc = "threw",
                                         !.error = "Failed to send line to device"]
                     /\ UNCHANGED <<wire, exLog>>
                ELSE ContinueFrom(ex, ex.i + 1)
           ELSE IF LineAccepted(result)
                THEN ContinueFrom(ex, ex.i + 1)
                ELSE IF ex.attempt + 1 < RetryAttempts
                THEN SendLineFrom(ex, ex.i, ex.attempt + 1)
                ELSE /\ ex' = [ex EXCEPT !.pc = "threw",
                                         !.error = "Failed to send line after retries"]
                     /\ UNCHANGED <<wire, exLog>>

-----------------------------------------------------------------------------
(* wrapCodeHex: the transfer encoder *)

\* this.chunkSize, line 12 (1024 in the source; scaled with HalfChunk)
chunkSize == 2 * HalfChunk

\* Math.ceil(a / b) for a >= 0, b > 0
CeilDiv(a, b) == (a + b - 1) \div b

\* the characters of payloads and file names with their UTF-8 code (all of
\* them ASCII, one byte each)
CharCodes ==
    [c \in {"a", "f", "i", "l", "e", "n", "m", "g", "#", ":", ".", ">", SP, LF} |->
        CASE c = "a" -> 97 [] c = "f" -> 102 [] c = "i" -> 105 [] c = "l" -> 108
          [] c = "e" -> 101 [] c = "n" -> 110 [] c = "m" -> 109 [] c = "g" -> 103
          [] c = "#" -> 35 [] c = ":" -> 58 [] c = "." -> 46 [] c = ">" -> 62
          [] c = SP -> 32 [] c = LF -> 10]

\* new TextEncoder().encode(text), line 383
Utf8(text) == [i \in 1..Len(text) |-> CharCodes[text[i]]]

HexDigits == <<"0", "1", "2", "3", "4", "5", "6", "7", "8", "9",
               "a", "b", "c", "d", "e", "f">>

\* lines 389-392: two hex digits per byte
HexStr(bytes) ==
    [k \in 1..(2 * Len(bytes)) |->
        LET byte == bytes[(k + 1) \div 2]
        IN  IF k % 2 = 1 THEN HexDigits[(byte \div 16) + 1] ELSE HexDigits[(byte % 16) + 1]]

RECURSIVE Decimal(_)
\* `${n}`: the decimal digits of n
Decimal(n) == IF n < 10 THEN <<HexDigits[n + 1]>>
              ELSE Decimal(n \div 10) \o <<HexDigits[(n % 10) + 1]>>

\* the fixed texts of the script lines, lines 395-415
AllocHead == "import gc; gc.collect(); b_ = bytearray("
AllocTail == "); bi_ = 0"
ChunkHead == "c_ = b'"
Quote == "'"
ForLine ==
    <<"for i in range(len(c_)//2): b_[bi_+i] = int(c_[2*i:2*i+2], 16).to_bytes(1, 'little')[0]">>
AdvanceLine == <<"bi_ += len(c_)//2; print(\".\", end=\"\"); del c_; gc.collect()">>
RunLine == <<"print(\" Running.\"); print(\"--------\"); b_ = b_.decode()">>
ExecLine == <<"exec(", "b_)">>
DelLine == <<"del b_">>
OpenHead == "f_ = open('"
OpenMid == "', '"
OpenTail == "')"
WriteLine == <<"_ = f_.write(b_)">>
CloseLine == <<"f_.close();">>
CleanupLine == <<"del f_; del b_; gc.collect(); print(\" Done.\")">>

\* line 411
WriteMode(append) == IF append THEN "ab" ELSE "wb"

RECURSIVE HexChunkLinesOdd(_, _, _)
\* HexChunkLines with chunks one character shorter
HexChunkLinesOdd(hexStr, i, chunks) ==
    IF i >= chunks THEN <<>>
    ELSE LET chunk == Substring(hexStr, i * (chunkSize - 1), (i + 1) * (chunkSize - 1))
         IN  <<ChunkHead>> \o chunk \o <<Quote>> \o CRLF
             \o ForLine \o CRLF
             \o Sentinel \o CRLF
             \o AdvanceLine \o CRLF
             \o HexChunkLinesOdd(hexStr, i + 1, chunks)

RECURSIVE HexChunkLines(_, _, _)
\* lines 398-404: the four lines of every hex chunk from chunk i on
HexChunkLines(hexStr, i, chunks) ==
    IF i >= chunks THEN <<>>
    ELSE LET chunk == Substring(hexStr, i * chunkSize, (i + 1) * chunkSize)
         IN  <<ChunkHead>> \o chunk \o <<Quote>> \o CRLF
             \o ForLine \o CRLF
             \o Sentinel \o CRLF
             \o AdvanceLine \o CRLF
             \o HexChunkLines(hexStr, i + 1, chunks)

\* lines 376-419; saveTo is Null or Some(file name)
WrapCodeHex(binCode, saveTo, append) ==
    LET bytes == Utf8(binCode)
        hexStr == HexStr(bytes)
        chunks == CeilDiv(Len(hexStr), chunkSize)
    IN  <<AllocHead>> \o Decimal(Len(bytes)) \o <<AllocTail>> \o CRLF
        \o HexChunkLines(hexStr, 0, chunks)
        \o (IF saveTo = Null
            THEN RunLine \o CRLF \o ExecLine \o CRLF \o DelLine \o CRLF
            ELSE <<OpenHead>> \o saveTo[1] \o <<OpenMid, WriteMode(append), OpenTail>> \o CRLF
                 \o WriteLine \o CRLF
                 \o CloseLine \o CRLF
                 \o CleanupLine \o CRLF)

-----------------------------------------------------------------------------
(* uploadCode and downloadCode: the file transfer orchestrator *)

\* '# filename: ' of line 549 and '# filename:' of the pattern of line 551
DirectiveStart == <<"#", SP, "f", "i", "l", "e", "n", "a", "m", "e", ":", SP>>
DirectiveKey == <<"#", SP, "f", "i", "l", "e", "n", "a", "m", "e", ":">>

\* the maximal run of non-space characters of s that starts at position q
NonSpaceRun(s, q) ==
    LET nexts == {r \in (q + 1)..Len(s) : IsSpace(s[r])}
    IN  SubSeq(s, q, (IF nexts = {} THEN Len(s) + 1
                      ELSE CHOOSE r \in nexts : \A t \in nexts : r <= t) - 1)

\* code.match(/# filename:\s*(\S+)/), line 551: Null, or Some(match[1])
DirectiveMatch(code) ==
    LET k == Len(DirectiveKey)
        \* the first non-space position after the key at p, 0 if there is none
        First(p) == LET ns == {q \in (p + k + 1)..Len(code) : ~IsSpace(code[q])}
                    IN  IF ns = {} THEN 0 ELSE CHOOSE q \in ns : \A t \in ns : q <= t
        hits == {p \in 0..(Len(code) - k) :
                    SubSeq(code, p + 1, p + k) = DirectiveKey /\ First(p) # 0}
    IN  IF hits = {} THEN Null
        ELSE LET p == CHOOSE h \in hits : \A t \in hits : h <= t
             IN  Some(NonSpaceRun(code, First(p)))

\* lines 549-555: the file name the upload writes to
TargetFilename(code, filename) ==
    IF StartsWith(code, DirectiveStart) /\ DirectiveMatch(code) # Null
    THEN DirectiveMatch(code)[1]
    ELSE filename

\* line 562, "const chunkSize = this.chunkSize // 2;": in JavaScript the text
\* from // on is a comment, so the value is this.chunkSize
UploadChunkSize == chunkSize

\* line 563
UploadChunks(code) == CeilDiv(Len(code), UploadChunkSize)

\* line 566
UploadChunk(code, i) == Substring(code, i * UploadChunkSize, (i + 1) * UploadChunkSize)

\* the lines downloadCode sends, lines 507-517
ProbeTryHead == "try: f = open('"
ProbeTryTail == "', 'r'); f.close(); print(\"FILE_EXISTS\")"
ProbeExceptLine == <<"except: print(\"FILE_NOT_FOUND\")">>
ReadHead == "f = open('"
ReadTail == "', 'r'); content = f.read(); f.close()"
PrintLine ==
    <<"print(\"===FILE_START===\", end=\"\"); print(content, end=\"\"); print(\"===FILE_END===\")">>
FileExists == <<"FILE_EXISTS">>
FileNotFound == <<"FILE_NOT_FOUND">>
StartMarker == <<"===FILE_START===">>
EndMarker == <<"===FILE_END===">>

\* the fields of the calls; failures counts the executeCodeRaw calls of an
\* upload that threw, bad records that a command of a download got null or a
\* remote exception for its response
UpIdle == [pc |-> "idle", code |-> <<>>, filename |-> <<>>, i |-> 0, chunks |-> 0,
           error |-> "none", failures |-> 0]
DlIdle == [pc |-> "idle", filename |-> <<>>, content |-> Null, error |-> "none",
           bad |-> FALSE]

RECURSIVE ReplaceCRLF(_)
\* text.replace(/\r\n/g, '\n'), line 529
ReplaceCRLF(s) ==
    IF Len(s) = 0 THEN <<>>
    ELSE IF StartsWith(s, CRLF) THEN <<LF>> \o ReplaceCRLF(SubstringFrom(s, 2))
    ELSE <<s[1]>> \o ReplaceCRLF(Tail(s))

\* lines 520-529 on a non-null result: Null when a marker is missing, else
\* Some(content)
ExtractContent(result) ==
    LET startIndex == IndexOf(result, StartMarker)
        endIndex == IndexOf(result, EndMarker)
    IN  IF startIndex = -1 \/ endIndex = -1 THEN Null
        ELSE Some(ReplaceCRLF(Substring(result, startIndex + Len(StartMarker), endIndex)))

-----------------------------------------------------------------------------
(* The remote interpreter, as the lines of the scripts address it: a REPL    *)
(* that echoes each line, runs it, prints its output and then a prompt       *)

PrimaryPrompt == <<">", ">", ">", SP>>
ContinuationPrompt == <<".", ".", ".", SP>>
TracebackText ==
    <<"Traceback", " (most recent call last):", CR, LF, "Error", CR, LF>>

\* the interpreter after a reset: no variables; files as given; a file system
\* without a limit (capacity Null, else Some(bytes a file may hold)) and reads
\* that succeed
DevFresh(files) ==
    [files |-> files, b |-> Null, bi |-> 0, c |-> Null, block |-> "none",
     fh |-> Null, content |-> Null, probe |-> <<>>, capacity |-> Null,
     readFails |-> FALSE]

\* the value of a hex digit, int(d, 16)
HexValue(d) == (CHOOSE i \in 1..16 : HexDigits[i] = d) - 1

RECURSIVE ParseDecimal(_)
\* int(digits)
ParseDecimal(digits) ==
    IF Len(digits) = 0 THEN 0
    ELSE 10 * ParseDecimal(SubSeq(digits, 1, Len(digits) - 1)) + HexValue(digits[Len(digits)])

\* bytes.decode() / a text-mode read: the characters of the bytes
DecodeBytes(bytes) ==
    [i \in 1..Len(bytes) |-> CHOOSE c \in DOMAIN CharCodes : CharCodes[c] = bytes[i]]

RECURSIVE Cooked(_)
\* the terminal output of a text: every LF is sent as CR LF
Cooked(text) ==
    IF Len(text) = 0 THEN <<>>
    ELSE (IF text[1] = LF THEN CRLF ELSE <<text[1]>>) \o Cooked(Tail(text))

\* a line ran: the new state, its output, and the prompt that follows
Ran(d, out) == [dev |-> d, out |-> out, prompt |-> PrimaryPrompt]
Raised(d) == [dev |-> d, out |-> TracebackText, prompt |-> PrimaryPrompt]
Continued(d) == [dev |-> d, out |-> <<>>, prompt |-> ContinuationPrompt]

\* line 401 run for the chunk c_: the bytes written at the running offset
DecodeLoop(d) ==
    IF d.c = Null \/ d.b = Null THEN Raised(d)
    ELSE LET c == d.c[1]
             b == d.b[1]
             n == Len(c) \div 2
             byteAt(i) == 16 * HexValue(c[2 * i + 1]) + HexValue(c[2 * i + 2])
             written == [k \in 1..Len(b) |->
                            IF k - 1 - d.bi \in 0..(n - 1)
                            THEN byteAt(k - 1 - d.bi) ELSE b[k]]
         IN  IF d.bi + n <= Len(b)
             THEN Ran([d EXCEPT !.b = Some(written)], <<>>)
             ELSE Raised([d EXCEPT !.b = Some(written)])

\* the empty line: it ends a pending block, which then runs
DevEmptyLine(d) ==
    CASE d.block = "for" -> DecodeLoop([d EXCEPT !.block = "none"])
      [] d.block = "except" ->
           Ran([d EXCEPT !.block = "none"],
               (IF d.probe \in DOMAIN d.files THEN FileExists ELSE FileNotFound) \o CRLF)
      [] OTHER -> Ran([d EXCEPT !.block = "none"], <<>>)

\* "f_ = open('<name>', '<mode>')", line 412
DevOpen(d, line) ==
    LET mid == IndexOf(line, <<OpenMid>>)
        name == Substring(line, 1, mid)
        mode == line[mid + 2]
    IN  Ran([d EXCEPT !.fh = Some([name |-> name, mode |-> mode]),
                      !.files = IF mode = "wb" \/ name \notin DOMAIN d.files
                                THEN [f \in DOMAIN d.files \cup {name} |->
                                         IF f = name THEN <<>> ELSE d.files[f]]
                                ELSE d.files],
            <<>>)

\* one line at the prompt (or inside a block) of the interpreter
DevLine(d, line) ==
    CASE line = <<>> -> DevEmptyLine(d)
      [] line # <<>> /\ line[1] = AllocHead ->
           Ran([d EXCEPT !.b = Some([i \in 1..ParseDecimal(Substring(line, 1, Len(line) - 1))
                                        |-> 0]),
                         !.bi = 0], <<>>)
      [] line # <<>> /\ line[1] = ChunkHead ->
           Ran([d EXCEPT !.c = Some(Substring(line, 1, Len(line) - 1))], <<>>)
      [] line = ForLine -> Continued([d EXCEPT !.block = "for"])
      [] line = AdvanceLine ->
           IF d.c = Null THEN Raised(d)
           ELSE Ran([d EXCEPT !.bi = @ + (Len(d.c[1]) \div 2), !.c = Null], <<".">>)
      [] line # <<>> /\ line[1] = OpenHead -> DevOpen(d, line)
      [] line = WriteLine ->
           IF d.fh = Null \/ d.b = Null THEN Raised(d)
           ELSE IF d.capacity # Null
                   /\ Len(d.files[d.fh[1].name]) + Len(d.b[1]) > d.capacity[1]
           THEN Raised(d)
           ELSE Ran([d EXCEPT !.files[d.fh[1].name] = @ \o d.b[1]], <<>>)
      [] line = CloseLine -> IF d.fh = Null THEN Raised(d) ELSE Ran(d, <<>>)
      [] line = CleanupLine ->
           IF d.fh = Null \/ d.b = Null THEN Raised(d)
           ELSE Ran([d EXCEPT !.fh = Null, !.b = Null], <<SP, "Done.", CR, LF>>)
      [] line # <<>> /\ line[1] = ProbeTryHead ->
           Continued([d EXCEPT !.block = "try", !.probe = Substring(line, 1, Len(line) - 1)])
      [] line = ProbeExceptLine -> Continued([d EXCEPT !.block = "except"])
      [] line # <<>> /\ line[1] = ReadHead ->
           LET name == Substring(line, 1, Len(line) - 1)
           IN  IF name \in DOMAIN d.files /\ ~d.readFails
               THEN Ran([d EXCEPT !.content = Some(DecodeBytes(d.files[name]))], <<>>)
               ELSE Raised(d)
      [] line = PrintLine ->
           IF d.content = Null THEN Raised(d)
           ELSE Ran(d, StartMarker \o Cooked(d.content[1]) \o EndMarker \o CRLF)
      [] OTHER -> Raised(d)

\* the interpreter receives what one writer.write handed over: an interrupt,
\* or a line and its terminator; the second component is all it sends back
DevReact(d, text) ==
    IF text = <<CtrlC>>
    THEN [dev |-> [d EXCEPT !.block = "none"], out |-> CRLF \o PrimaryPrompt]
    ELSE LET line == Substring(text, 0, Len(text) - 2)
             r == DevLine(d, line)
         IN  [dev |-> r.dev, out |-> line \o CRLF \o r.out \o r.prompt]

-----------------------------------------------------------------------------
(* The prompt scanner on its own: every stream of polls *)

ScanAlphabet == {"a", ".", ">", CR, LF}

RECURSIVE TextsUpTo(_, _)
\* all texts over alphabet A of at most n tokens
TextsUpTo(A, n) ==
    IF n = 0 THEN {<<>>}
    ELSE LET shorter == TextsUpTo(A, n - 1)
         IN  shorter \cup {Append(t, c) : t \in {x \in shorter : Len(x) = n - 1}, c \in A}

\* the stream of the specification's example, as two polls
ExampleFirst ==
    <<"e", "c", "h", "o", CR, LF, "d", "a", "t", "a", ".", ".", ".", CR, LF>>
ExampleSecond == <<">", ">", ">", SP>>

\* a response whose second line is held back, '.' being its last character,
\* and the text with the prompt that follows it
HeldFirst == <<"a", CR, LF, LF, ".">>
HeldSecond == <<"a", ">", ">", ">">>

\* a response delivered before its prompt, and the prompt
SplitFirst == <<"a", CR, LF, SP, "a">>
SplitSecond == <<">", ">", ">">>

\* the texts one poll can deliver
ScanChunks == TextsUpTo(ScanAlphabet, MaxChunkLen)

\* what one poll (consumer.readWithTimeout, lines 247-262) can hand over
PollData ==
    {d \in ScanChunks : Len(received) + Len(d) <= MaxStream}
    \cup (IF received = <<>> THEN {ExampleFirst, <<"a", CR, LF, SP, "a", ">", ">", ">">>} ELSE {})
    \cup (IF received = ExampleFirst THEN {ExampleSecond} ELSE {})
    \cup (IF received = <<>> THEN {HeldFirst, SplitFirst} ELSE {})
    \cup (IF received = HeldFirst THEN {HeldSecond} ELSE {})
    \cup (IF received = SplitFirst THEN {SplitSecond} ELSE {})

ScanInit ==
    /\ connected \in BOOLEAN
    /\ lastLineEcho = <<>>
    /\ rup = RupIdle
    /\ received = <<>>
    /\ emptyRun = 0
    /\ ex = ExIdle
    /\ lineResult = Null
    /\ wire = <<>>
    /\ exLog = <<>>
    /\ up = UpIdle
    /\ dl = DlIdle
    /\ scripts = <<>>
    /\ dev = DevFresh(<<>>)
    /\ stream = <<>>
    /\ LinkFresh
    /\ fileManager = FmConstructed

\* lines 284-293: the call starts; it throws when not connected
RupStart ==
    /\ rup.status = "idle"
    /\ rup' = IF connected THEN RupFresh ELSE [RupIdle EXCEPT !.status = "threw"]
    /\ UNCHANGED <<fileManager, linkVars, connected, lastLineEcho, received, emptyRun, execVars, xferVars>>

\* lines 296-345: one poll and the loop iteration on its result
RupPoll ==
    /\ \E data \in PollData : RupStep(data)
    /\ UNCHANGED <<fileManager, linkVars, connected, execVars, xferVars>>

ScanNext == RupStart \/ RupPoll

SpecScan == ScanInit /\ [][ScanNext]_vars

\* the timer of readWithTimeout (lines 247-262) fires 200 ms after the poll
\* started, so a poll of a running call ends
SpecScanFair == SpecScan /\ WF_vars(RupPoll)

-----------------------------------------------------------------------------
(* The raw executor on its own: every payload, every response *)

\* the lines payloads are made of: blank, plain, indented, an exec( line and
\* the sentinel
LineTexts == {<<>>, <<"x">>, <<SP, "y">>, <<"exec(", "z">>, <<"_EMPTY_">>}

\* the line terminators of a payload
Terminators == {<<LF>>, <<CR, LF>>, <<CR>>}

RECURSIVE Join(_, _)
\* the lines joined by the terminator
Join(lines, sep) ==
    IF Len(lines) = 0 THEN <<>>
    ELSE IF Len(lines) = 1 THEN lines[1]
    ELSE lines[1] \o sep \o Join(Tail(lines), sep)

RECURSIVE LineLists(_)
\* all lists of at most n lines
LineLists(n) ==
    IF n = 0 THEN {<<>>}
    ELSE LET shorter == LineLists(n - 1)
         IN  shorter \cup {Append(l, t) : l \in {x \in shorter : Len(x) = n - 1},
                                          t \in LineTexts}

ExecPayloads == {Join(l, sep) : l \in LineLists(MaxLines), sep \in Terminators}

\* what sendLine can return: null, the empty response, a response with the
\* remote-exception marker
Responses == {Null, Some(<<>>), Some(<<"x", "Traceback", "y">>)}

ExecInit ==
    /\ connected \in BOOLEAN
    /\ lastLineEcho = <<>>
    /\ rup = RupIdle
    /\ received = <<>>
    /\ emptyRun = 0
    /\ ex = ExIdle
    /\ lineResult = Null
    /\ wire = <<>>
    /\ exLog = <<>>
    /\ up = UpIdle
    /\ dl = DlIdle
    /\ scripts = <<>>
    /\ dev = DevFresh(<<>>)
    /\ stream = <<>>
    /\ LinkFresh
    /\ fileManager = FmConstructed

ExecCall ==
    /\ ex.pc = "idle"
    /\ \E code \in ExecPayloads, retry \in BOOLEAN : ExecBegin(code, retry)
    /\ UNCHANGED <<fileManager, linkVars, connected, scanVars, xferVars>>

ExecInterrupt2 ==
    /\ ExecSecondInterrupt
    /\ UNCHANGED <<fileManager, linkVars, connected, scanVars, xferVars>>

ExecDrain ==
    /\ \E data \in {Null, Some(<<>>)} : ExecDrained(data)
    /\ UNCHANGED <<fileManager, linkVars, connected, scanVars, xferVars>>

ExecResponse ==
    /\ \E result \in Responses : ExecLineResult(result)
    /\ UNCHANGED <<fileManager, linkVars, connected, scanVars, xferVars>>

ExecNext == ExecCall \/ ExecInterrupt2 \/ ExecDrain \/ ExecResponse

SpecExec == ExecInit /\ [][ExecNext]_vars

-----------------------------------------------------------------------------
(* Upload and download against the remote interpreter *)

\* the characters enumerated payloads are made of
PayloadAlphabet == {"a", SP, ".", LF}

\* payloads longer than one chunk, and one that names its file
LongPayloads ==
    {<<"a", ".", ".", ".">>,
     <<"a", "a", LF, "a", "a">>,
     <<"a", ".", "a", LF, SP, "a", "a", ">", LF>>,
     DirectiveStart \o <<"g", LF, "a">>}

UploadPayloads == TextsUpTo(PayloadAlphabet, MaxPayload) \cup LongPayloads

\* the file name argument of the calls
MainPy == <<"m", "a", "i", "n", ".", "p", "y">>

\* what the device holds at the start: no file, or an earlier main.py
InitialFiles == {<<>>, [f \in {MainPy} |-> Utf8(<<"a", "a">>)]}

\* the devices a call can meet: sound ones; one whose file system is full
\* after chunkSize bytes in a file, one that is full from the start (the
\* write of line 413 then raises OSError 28); and one on which the read of
\* line 516 raises while the variable content is left from an earlier
\* download
InitialDevices ==
    {DevFresh(files) : files \in InitialFiles}
    \cup {[DevFresh([f \in {MainPy} |-> Utf8(<<"a", "a">>)]) EXCEPT
              !.capacity = Some(chunkSize)],
          [DevFresh(<<>>) EXCEPT !.capacity = Some(0)],
          [DevFresh([f \in {MainPy} |-> Utf8(<<"a", "a">>)]) EXCEPT
              !.content = Some(<<"a">>), !.readFails = TRUE]}

XferInit ==
    /\ connected \in BOOLEAN
    /\ lastLineEcho = <<>>
    /\ rup = RupIdle
    /\ received = <<>>
    /\ emptyRun = 0
    /\ ex = ExIdle
    /\ lineResult = Null
    /\ wire = <<>>
    /\ exLog = <<>>
    /\ up = UpIdle
    /\ dl = DlIdle
    /\ scripts = <<>>
    /\ dev \in InitialDevices
    /\ stream = <<>>
    /\ LinkFresh
    /\ fileManager = FmConstructed

\* the remote reacts to what the step has just written, and the call that
\* wrote a line waits for its prompt in a new readUntilPrompt
RemoteReacts ==
    IF Len(wire') > Len(wire)
    THEN LET r == DevReact(dev, wire'[Len(wire')])
         IN  /\ dev' = r.dev
             /\ stream' = stream \o r.out
             /\ RupBegin
    ELSE /\ UNCHANGED <<dev, stream, lastLineEcho, received, emptyRun>>
         /\ rup' = RupIdle

\* the first interrupt of a call: the remote answers while the call sleeps
\* its 300 ms, before any readUntilPrompt looks at the buffer
FirstInterruptReaches ==
    /\ dev' = DevReact(dev, <<CtrlC>>).dev
    /\ stream' = <<>>
    /\ UNCHANGED scanVars

\* lines 565-577: chunk i is wrapped and handed to executeCodeRaw
UploadStartChunk(code, filename, i) ==
    LET chunk == UploadChunk(code, i)
        append == i > 0
    IN  /\ scripts' = Append(scripts, [chunk |-> chunk, saveTo |-> filename,
                                       append |-> append])
        /\ ExecBegin(WrapCodeHex(chunk, Some(filename), append), TRUE)
        /\ FirstInterruptReaches

\* lines 544-577: uploadCode(code, 'main.py'), up to its first await
UploadBegin(code) ==
    IF ~connected
    THEN /\ up' = [UpIdle EXCEPT !.pc = "threw", !.code = code, !.filename = MainPy,
                                 !.error = "Not connected to device"]
         /\ UNCHANGED <<scanVars, execVars, scripts, dev, stream>>
    ELSE LET filename == TargetFilename(code, MainPy)
             chunks == UploadChunks(code)
         IN  IF 0 < chunks
             THEN /\ up' = [UpIdle EXCEPT !.pc = "running", !.code = code,
                                          !.filename = filename, !.chunks = chunks]
                  /\ UploadStartChunk(code, filename, 0)
             ELSE /\ up' = [UpIdle EXCEPT !.pc = "done", !.code = code,
                                          !.filename = filename, !.chunks = chunks]
                  /\ UNCHANGED <<scanVars, execVars, scripts, dev, stream>>

\* lines 544-577: the call, up to its first await
UploadCall ==
    /\ up.pc = "idle"
    /\ dl.pc = "idle"
    /\ \E code \in UploadPayloads : UploadBegin(code)
    /\ UNCHANGED <<fileManager, linkVars, connected, dl>>

\* lines 435-440 inside an upload
XferInterrupt2 ==
    /\ up.pc = "running"
    /\ ExecSecondInterrupt
    /\ RemoteReacts
    /\ UNCHANGED <<fileManager, linkVars, connected, up, dl, scripts>>

\* one poll of the running readUntilPrompt: what has arrived so far, or
\* nothing once the remote has fallen silent
XferPoll ==
    /\ IF stream = <<>>
       THEN RupStep(<<>>) /\ UNCHANGED stream
       ELSE \E n \in 1..Len(stream) :
               /\ RupStep(SubSeq(stream, 1, n))
               /\ stream' = SubSeq(stream, n + 1, Len(stream))
    /\ UNCHANGED <<fileManager, linkVars, connected, execVars, up, dl, scripts, dev>>

\* readUntilPrompt has returned to the call that awaits it
RupReturned == rup.status \in {"returned", "null"}

\* lines 440-449 inside an upload
XferDrained ==
    /\ up.pc = "running"
    /\ RupReturned
    /\ ExecDrained(rup.result)
    /\ RemoteReacts
    /\ UNCHANGED <<fileManager, linkVars, connected, up, dl, scripts>>

\* lines 457-474 inside an upload
XferLineResult ==
    /\ up.pc = "running"
    /\ RupReturned
    /\ ExecLineResult(rup.result)
    /\ RemoteReacts
    /\ UNCHANGED <<fileManager, linkVars, connected, up, dl, scripts>>

\* UploadChunkReturned that goes on to the next chunk after a failed one
UploadChunkReturnedIgnoringFailure ==
    /\ up.pc = "running"
    /\ ex.pc \in {"done", "threw"}
    /\ LET u == [up EXCEPT !.failures = IF ex.pc = "threw" THEN @ + 1 ELSE @]
       IN  IF up.i + 1 < up.chunks
           THEN /\ up' = [u EXCEPT !.i = @ + 1]
                /\ UploadStartChunk(up.code, up.filename, up.i + 1)
           ELSE /\ up' = [u EXCEPT !.i = @ + 1, !.pc = "done"]
                /\ UNCHANGED <<scanVars, execVars, scripts, dev, stream>>
    /\ UNCHANGED <<fileManager, linkVars, connected, dl>>

\* lines 565-585: executeCodeRaw has returned or thrown
UploadChunkReturned ==
    /\ up.pc = "running"
    /\ ex.pc \in {"done", "threw"}
    /\ IF ex.pc = "threw"
       THEN /\ up' = [up EXCEPT !.pc = "threw", !.error = ex.error, !.failures = @ + 1]
            /\ UNCHANGED <<scanVars, execVars, scripts, dev, stream>>
       ELSE IF up.i + 1 < up.chunks
       THEN /\ up' = [up EXCEPT !.i = @ + 1]
            /\ UploadStartChunk(up.code, up.filename, up.i + 1)
       ELSE /\ up' = [up EXCEPT !.i = @ + 1, !.pc = "done"]
            /\ UNCHANGED <<scanVars, execVars, scripts, dev, stream>>
    /\ UNCHANGED <<fileManager, linkVars, connected, dl>>

\* sendLine (lines 358-368) called by downloadCode
DlSendLine(line) ==
    /\ wire' = Append(wire, line \o CRLF)
    /\ RemoteReacts

\* lines 483-495: the call; it throws when not connected, else writes the
\* first interrupt
DownloadCall ==
    /\ dl.pc = "idle"
    /\ up.pc \in {"idle", "done"}
    /\ IF ~connected
       THEN /\ dl' = [DlIdle EXCEPT !.pc = "threw", !.filename = MainPy,
                                    !.error = "Not connected to device"]
            /\ UNCHANGED <<wire, dev, stream, scanVars>>
       ELSE /\ dl' = [DlIdle EXCEPT !.pc = "sleep", !.filename = MainPy]
            /\ wire' = Append(wire, <<CtrlC>>)
            /\ FirstInterruptReaches
    /\ UNCHANGED <<fileManager, linkVars, connected, ex, lineResult, exLog, up, scripts>>

\* lines 497-501: the second interrupt, and the drain starts
DownloadInterrupt2 ==
    /\ dl.pc = "sleep"
    /\ dl' = [dl EXCEPT !.pc = "drain"]
    /\ wire' = Append(wire, <<CtrlC>>)
    /\ RemoteReacts
    /\ UNCHANGED <<fileManager, linkVars, connected, ex, lineResult, exLog, up, scripts>>

\* a response that shows its command failed: null, or one that holds the
\* remote-exception marker
CommandFailed(result) == result = Null \/ Includes(result[1], Traceback)

\* downloadCode stops with an error (the catch of line 533 rethrows)
DlThrow(d, error) ==
    /\ dl' = [d EXCEPT !.pc = "threw", !.error = error]
    /\ rup' = RupIdle
    /\ UNCHANGED <<wire, dev, stream, lastLineEcho, received, emptyRun>>

\* lines 517-532: the response to the print command has come back
DownloadPrinted(d) ==
    IF rup.result = Null THEN DlThrow(d, "TypeError")
    ELSE IF ExtractContent(rup.result[1]) = Null
    THEN DlThrow(d, "Failed to read file content from device")
    ELSE /\ dl' = [d EXCEPT !.pc = "done", !.content = ExtractContent(rup.result[1])]
         /\ rup' = RupIdle
         /\ UNCHANGED <<wire, dev, stream, lastLineEcho, received, emptyRun>>

\* lines 501-532: the awaited readUntilPrompt has returned, and the call runs
\* on to its next sendLine or to its end
DownloadResumed ==
    /\ dl.pc \in {"drain", "probeTry", "probeExcept", "probeRun", "read", "print"}
    /\ RupReturned
    /\ LET d == [dl EXCEPT !.bad = @ \/ (dl.pc # "drain" /\ CommandFailed(rup.result))]
       IN CASE dl.pc = "drain" ->
              IF rup.result = Null THEN DlThrow(d, "Device is not responding")
              ELSE /\ dl' = [d EXCEPT !.pc = "probeTry"]
                   /\ DlSendLine(<<ProbeTryHead>> \o dl.filename \o <<ProbeTryTail>>)
         [] dl.pc = "probeTry" ->
              /\ dl' = [d EXCEPT !.pc = "probeExcept"]
              /\ DlSendLine(ProbeExceptLine)
         [] dl.pc = "probeExcept" ->
              /\ dl' = [d EXCEPT !.pc = "probeRun"]
              /\ DlSendLine(<<>>)
         [] dl.pc = "probeRun" ->
              IF rup.result = Null THEN DlThrow(d, "TypeError")
              ELSE IF Includes(rup.result[1], FileNotFound)
              THEN DlThrow(d, "File not found on device")
              ELSE /\ dl' = [d EXCEPT !.pc = "read"]
                   /\ DlSendLine(<<ReadHead>> \o dl.filename \o <<ReadTail>>)
         [] dl.pc = "read" ->
              /\ dl' = [d EXCEPT !.pc = "print"]
              /\ DlSendLine(PrintLine)
         [] dl.pc = "print" -> DownloadPrinted(d)
    /\ UNCHANGED <<fileManager, linkVars, connected, ex, lineResult, exLog, up, scripts>>

XferNext ==
    \/ UploadCall
    \/ XferInterrupt2
    \/ XferPoll
    \/ XferDrained
    \/ XferLineResult
    \/ UploadChunkReturned
    \/ DownloadCall
    \/ DownloadInterrupt2
    \/ DownloadResumed

SpecTransfer == XferInit /\ [][XferNext]_vars

-----------------------------------------------------------------------------
(* The extraction of a download on its own: every response to the print     *)
(* command                                                                   *)

\* what responses are made of: the two markers, a character, a line end
ResponseAlphabet == {"===FILE_START===", "===FILE_END===", "a", CR, LF}

\* what the sendLine of line 517 can return: null or a text
PrintResponses ==
    {Null} \cup {Some(r) : r \in TextsUpTo(ResponseAlphabet, MaxResponse)}

\* a download that waits for the response to its print command, which
\* readUntilPrompt has just returned
ExtractInit ==
    /\ connected = TRUE
    /\ lastLineEcho = <<>>
    /\ \E r \in PrintResponses :
          rup = [RupFresh EXCEPT !.status = IF r = Null THEN "null" ELSE "returned",
                                 !.result = r]
    /\ received = <<>>
    /\ emptyRun = 0
    /\ ex = ExIdle
    /\ lineResult = Null
    /\ wire = <<>>
    /\ exLog = <<>>
    /\ up = UpIdle
    /\ dl = [DlIdle EXCEPT !.pc = "print", !.filename = MainPy]
    /\ scripts = <<>>
    /\ dev = DevFresh(<<>>)
    /\ stream = <<>>
    /\ LinkFresh
    /\ fileManager = FmConstructed

\* lines 517-532
ExtractStep ==
    /\ dl.pc = "print"
    /\ RupReturned
    /\ DownloadPrinted([dl EXCEPT !.bad = CommandFailed(rup.result)])
    /\ UNCHANGED <<fileManager, linkVars, connected, ex, lineResult, exLog, up, scripts>>

ExtractNext == ExtractStep

SpecExtract == ExtractInit /\ [][ExtractNext]_vars

-----------------------------------------------------------------------------
(* The transfer encoder on its own: every payload, its script run line by   *)
(* line on the remote interpreter                                            *)

\* the payloads handed to wrapCodeHex: the empty one, and lengths below, at
\* and above the bytes of one and of two hex chunks
WrapPayloads == TextsUpTo({"a", LF}, MaxWrapLen)

\* the destinations: run the payload, or save it to main.py
WrapTargets == {Null, Some(MainPy)}

WrapInit ==
    /\ connected = TRUE
    /\ lastLineEcho = <<>>
    /\ rup = RupIdle
    /\ received = <<>>
    /\ emptyRun = 0
    /\ \E binCode \in WrapPayloads, saveTo \in WrapTargets, append \in BOOLEAN :
         /\ saveTo = Null => ~append
         /\ scripts = <<[chunk |-> binCode, saveTo |-> saveTo, append |-> append]>>
         /\ ex = [ExIdle EXCEPT !.pc = "lines",
                                !.code = WrapCodeHex(binCode, saveTo, append),
                                !.retry = TRUE,
                                !.lines = PayloadLines(WrapCodeHex(binCode, saveTo, append))]
    /\ lineResult = Null
    /\ wire = <<>>
    /\ exLog = <<>>
    /\ up = UpIdle
    /\ dl = DlIdle
    /\ dev = DevFresh(<<>>)
    /\ stream = <<>>
    /\ LinkFresh
    /\ fileManager = FmConstructed

\* lines 449-455 with the remote: the next line that is not skipped is
\* written as executeCodeRaw writes it, and the interpreter runs it
WrapStep ==
    /\ ex.pc = "lines"
    /\ LET j == NextLine(ex.lines, ex.i + 1)
       IN  /\ j # 0
           /\ ex' = [ex EXCEPT !.i = j]
           /\ wire' = Append(wire, ActualLine(Trim(ex.lines[j])) \o CRLF)
           /\ dev' = DevReact(dev, wire'[Len(wire')]).dev
    /\ UNCHANGED <<fileManager, connected, scanVars, lineResult, exLog, up, dl, scripts, stream,
                   linkVars>>

WrapNext == WrapStep

SpecWrap == WrapInit /\ [][WrapNext]_vars

-----------------------------------------------------------------------------
(* The connection, the Background Reader and the Buffer Consumers *)

\* line 207: the length above which the buffer is cut (10000 in the source,
\* twice the 5000 entries kept)
BufferLimit == 2 * BufferKeep

\* the chunks the transport delivers in all: enough for one cut
MaxArrivals == BufferLimit + 1

\* the texts of the chunks reader.read() hands over
ChunkTexts == {<<"a">>, <<CR, LF, ">", ">", ">">>}

\* the connection a requestPort call that succeeds returns: the next unused
NextConn == CHOOSE g \in 1..MaxConnects :
                streams[g] = "none" /\ \A h \in 1..(g - 1) : streams[h] # "none"

\* line 181: the condition of the loop
LoopCondition == backgroundReadActive /\ connected /\ reader # 0

\* lines 181-183: the loop at the top of an iteration issues a read on
\* this.reader, or ends
LoopTop == IF LoopCondition THEN [pc |-> "read", rd |-> reader]
           ELSE [pc |-> "exited", rd |-> 0]

\* Stored without the retention cut
StoredUncut(buffer, entry) == Append(buffer, entry)

\* lines 199-208: the buffer after the entry is pushed
Stored(buffer, entry) ==
    LET pushed == Append(buffer, entry)
    IN  IF Len(pushed) > BufferLimit
        THEN SubSeq(pushed, Len(pushed) - BufferKeep + 1, Len(pushed))
        ELSE pushed

\* lines 211-215: the position of a registered consumer after a cut
Adjusted(position) == IF position > BufferKeep THEN position - BufferKeep ELSE 0

\* lines 183-217: a read of a loop resolves with a chunk, which is stored
LoopReadChunk ==
    /\ \E l \in DOMAIN loops, data \in ChunkTexts :
         /\ loops[l].pc = "read"
         /\ streams[loops[l].rd] = "open"
         /\ serialBuffer' = Stored(serialBuffer, [n |-> arrived + 1, data |-> data])
         /\ consumers' =
              IF Len(serialBuffer) + 1 > BufferLimit
              THEN [c \in DOMAIN consumers |->
                       IF c \in bufferConsumers THEN Adjusted(consumers[c])
                       ELSE consumers[c]]
              ELSE consumers
         /\ loops' = [loops EXCEPT ![l] = LoopTop]
    /\ arrived' = arrived + 1
    /\ UNCHANGED <<fileManager, connected, scanVars, execVars, xferVars, port, reader, writer,
                   backgroundReadActive, backgroundReadPromise, bufferConsumers,
                   conn, disc, ops, streams, created, senders>>

\* lines 183-187: a read resolves with done (the stream was cancelled or
\* closed) and the loop ends
LoopReadDone ==
    /\ \E l \in DOMAIN loops :
         /\ loops[l].pc = "read"
         /\ streams[loops[l].rd] \in {"cancelled", "closed"}
         /\ loops' = [loops EXCEPT ![l] = [pc |-> "exited", rd |-> 0]]
    /\ UNCHANGED <<fileManager, connected, scanVars, execVars, xferVars, port, reader, writer,
                   backgroundReadActive, backgroundReadPromise, serialBuffer,
                   bufferConsumers, consumers, conn, disc, ops, streams, arrived,
                   created, senders>>

\* LoopReadError that ends the loop
LoopReadErrorEndsLoop ==
    /\ \E l \in DOMAIN loops :
         /\ loops[l].pc = "read"
         /\ streams[loops[l].rd] \in {"lost", "gone", "released"}
         /\ loops' = [loops EXCEPT ![l] = [pc |-> "exited", rd |-> 0]]
    /\ UNCHANGED <<fileManager, connected, scanVars, execVars, xferVars, port, reader, writer,
                   backgroundReadActive, backgroundReadPromise, serialBuffer,
                   bufferConsumers, consumers, conn, disc, ops, streams, arrived,
                   created, senders>>

\* lines 219-225: a read rejects (the device is lost or the reader was
\* released); while the flag is set the loop waits 100 ms, else it goes on
LoopReadError ==
    /\ \E l \in DOMAIN loops :
         /\ loops[l].pc = "read"
         /\ streams[loops[l].rd] \in {"lost", "gone", "released"}
         /\ loops' = [loops EXCEPT ![l] = IF backgroundReadActive
                                          THEN [pc |-> "delay", rd |-> 0]
                                          ELSE LoopTop]
    /\ UNCHANGED <<fileManager, connected, scanVars, execVars, xferVars, port, reader, writer,
                   backgroundReadActive, backgroundReadPromise, serialBuffer,
                   bufferConsumers, consumers, conn, disc, ops, streams, arrived,
                   created, senders>>

\* lines 223-226: the 100 ms are over
LoopDelayOver ==
    /\ \E l \in DOMAIN loops :
         /\ loops[l].pc = "delay"
         /\ loops' = [loops EXCEPT ![l] = LoopTop]
    /\ UNCHANGED <<fileManager, connected, scanVars, execVars, xferVars, port, reader, writer,
                   backgroundReadActive, backgroundReadPromise, serialBuffer,
                   bufferConsumers, consumers, conn, disc, ops, streams, arrived,
                   created, senders>>

\* lines 26-33: connect is called and waits for the user to select a port
ConnectCall ==
    /\ conn.pc = "idle"
    /\ ~connected
    /\ \E g \in 1..MaxConnects : streams[g] = "none"
    /\ conn' = [pc |-> "request", port |-> 0, result |-> "none"]
    /\ UNCHANGED <<fileManager, connected, scanVars, execVars, xferVars, port, reader, writer,
                   backgroundReadActive, backgroundReadPromise, serialBuffer,
                   bufferConsumers, consumers, loops, disc, ops, streams, arrived,
                   created, senders>>

\* ConnectCancelled that rethrows the cancellation
ConnectCancelledRethrown ==
    /\ conn.pc = "request"
    /\ conn' = [pc |-> "idle", port |-> 0, result |-> "threw"]
    /\ UNCHANGED <<fileManager, connected, scanVars, execVars, xferVars, port, reader, writer,
                   backgroundReadActive, backgroundReadPromise, serialBuffer,
                   bufferConsumers, consumers, loops, disc, ops, streams, arrived,
                   created, senders>>

\* lines 68-73: the user cancels the selection and connect returns false
ConnectCancelled ==
    /\ conn.pc = "request"
    /\ conn' = [pc |-> "idle", port |-> 0, result |-> "false"]
    /\ UNCHANGED <<fileManager, connected, scanVars, execVars, xferVars, port, reader, writer,
                   backgroundReadActive, backgroundReadPromise, serialBuffer,
                   bufferConsumers, consumers, loops, disc, ops, streams, arrived,
                   created, senders>>

\* lines 33-40: a port is selected, and connect waits for it to open
ConnectRequested ==
    /\ conn.pc = "request"
    /\ port' = NextConn
    /\ conn' = [conn EXCEPT !.pc = "open", !.port = NextConn]
    /\ streams' = [streams EXCEPT ![NextConn] = "opening"]
    /\ UNCHANGED <<fileManager, connected, scanVars, execVars, xferVars, reader, writer,
                   backgroundReadActive, backgroundReadPromise, serialBuffer,
                   bufferConsumers, consumers, loops, disc, ops, arrived, created, senders>>

\* lines 40, 74-76: the port does not open and connect throws
ConnectOpenFailed ==
    /\ conn.pc = "open"
    /\ conn' = [conn EXCEPT !.pc = "idle", !.result = "threw"]
    /\ streams' = [streams EXCEPT ![conn.port] = "closed"]
    /\ UNCHANGED <<fileManager, connected, scanVars, execVars, xferVars, port, reader, writer,
                   backgroundReadActive, backgroundReadPromise, serialBuffer,
                   bufferConsumers, consumers, loops, disc, ops, arrived, created, senders>>

\* lines 48-67: the port is open; reader and writer are taken and the
\* Background Reader is started (lines 158-165), which runs to its first read
ConnectOpened ==
    /\ conn.pc = "open"
    /\ IF port = 0
       THEN /\ conn' = [conn EXCEPT !.pc = "idle", !.result = "threw"]
            /\ streams' = [streams EXCEPT ![conn.port] = "closed"]
            /\ UNCHANGED <<connected, reader, writer, backgroundReadActive,
                           backgroundReadPromise, loops>>
       ELSE /\ conn' = [conn EXCEPT !.pc = "idle", !.result = "true"]
            /\ streams' = [streams EXCEPT ![conn.port] = "open"]
            /\ reader' = port
            /\ writer' = port
            /\ connected' = TRUE
            /\ IF backgroundReadActive
               THEN UNCHANGED <<backgroundReadActive, backgroundReadPromise, loops>>
               ELSE /\ backgroundReadActive' = TRUE
                    /\ loops' = Append(loops, [pc |-> "read", rd |-> port])
                    /\ backgroundReadPromise' = Len(loops) + 1
    /\ UNCHANGED <<fileManager, scanVars, execVars, xferVars, port, serialBuffer, bufferConsumers,
                   consumers, disc, ops, arrived, created, senders>>

\* the device of a connection whose port is open is unplugged: its streams
\* fail, and a disconnect event is on its way
Unplug ==
    /\ \E g \in 1..MaxConnects :
         /\ \/ streams[g] = "open"
            \/ /\ streams[g] \in {"cancelled", "released"}
               /\ \A l \in DOMAIN loops : ~(loops[l].pc = "read" /\ loops[l].rd = g)
         /\ streams' = [streams EXCEPT ![g] = "lost"]
    /\ UNCHANGED <<fileManager, connected, scanVars, execVars, xferVars, port, reader, writer,
                   backgroundReadActive, backgroundReadPromise, serialBuffer,
                   bufferConsumers, consumers, loops, conn, disc, ops, arrived,
                   created, senders>>

\* HandleUnexpectedDisconnect that leaves the registry of consumers alone
HandleUnexpectedDisconnectKeepsRegistry ==
    /\ \E g \in 1..MaxConnects :
         /\ streams[g] = "lost"
         /\ streams' = [streams EXCEPT ![g] = "gone"]
    /\ backgroundReadActive' = FALSE
    /\ backgroundReadPromise' = 0
    /\ reader' = 0
    /\ writer' = 0
    /\ port' = 0
    /\ connected' = FALSE
    /\ serialBuffer' = <<>>
    /\ UNCHANGED <<fileManager, scanVars, execVars, xferVars, bufferConsumers, consumers, loops,
                   conn, disc, ops, arrived, created, senders>>

\* lines 54-57 and 124-152: the disconnect event of a port arrives
HandleUnexpectedDisconnect ==
    /\ \E g \in 1..MaxConnects :
         /\ streams[g] = "lost"
         /\ streams' = [streams EXCEPT ![g] = "gone"]
    /\ backgroundReadActive' = FALSE
    /\ backgroundReadPromise' = 0
    /\ reader' = 0
    /\ writer' = 0
    /\ port' = 0
    /\ connected' = FALSE
    /\ serialBuffer' = <<>>
    /\ bufferConsumers' = {}
    /\ UNCHANGED <<fileManager, scanVars, execVars, xferVars, consumers, loops, conn, disc, ops,
                   arrived, created, senders>>

\* lines 104-109: the end of disconnect
DiscFinish(log) ==
    /\ connected' = FALSE
    /\ serialBuffer' = <<>>
    /\ bufferConsumers' = {}
    /\ ops' = Append(log, "clear")
    /\ disc' = [disc EXCEPT !.pc = "done"]

\* lines 99-102: disconnect from its test of this.port on, up to its next
\* await or its end
DiscFromPort(log) ==
    IF port # 0
    THEN /\ ops' = Append(log, "port.close")
         /\ disc' = [disc EXCEPT !.pc = "portClose", !.pt = port]
         /\ UNCHANGED <<connected, serialBuffer, bufferConsumers>>
    ELSE DiscFinish(log)

\* lines 94-97: disconnect from its test of this.writer on
DiscFromWriter(log) ==
    IF writer # 0
    THEN /\ ops' = Append(log, "writer.close")
         /\ disc' = [disc EXCEPT !.pc = "close", !.wr = writer]
         /\ UNCHANGED <<connected, serialBuffer, bufferConsumers>>
    ELSE DiscFromPort(log)

\* DisconnectCall that stops the Background Reader after the cancel
DisconnectCallStopsLate ==
    /\ disc.pc \in {"idle", "done", "threw"}
    /\ backgroundReadActive' = FALSE
    /\ backgroundReadPromise' = 0
    /\ IF reader # 0
       THEN /\ ops' = <<"reader.cancel", "stop">>
            /\ disc' = [disc EXCEPT !.pc = "cancel", !.rd = reader, !.error = "none",
                                    !.ok = streams[reader] \notin {"lost", "gone"}]
            /\ streams' = [streams EXCEPT ![reader] =
                               IF @ = "open" THEN "cancelled" ELSE @]
            /\ UNCHANGED <<connected, serialBuffer, bufferConsumers>>
       ELSE /\ DiscFromWriter(<<"stop">>)
            /\ UNCHANGED streams
    /\ UNCHANGED <<fileManager, scanVars, execVars, xferVars, port, reader, writer, consumers,
                   loops, conn, arrived, created, senders>>

\* DisconnectCall that releases the reader without cancelling it
DisconnectCallNoCancel ==
    /\ disc.pc \in {"idle", "done", "threw"}
    /\ backgroundReadActive' = FALSE
    /\ backgroundReadPromise' = 0
    /\ IF reader # 0
       THEN /\ streams' = [streams EXCEPT ![reader] = "released"]
            /\ reader' = 0
            /\ DiscFromWriter(<<"stop", "reader.releaseLock">>)
       ELSE /\ DiscFromWriter(<<"stop">>)
            /\ UNCHANGED <<streams, reader>>
    /\ UNCHANGED <<fileManager, scanVars, execVars, xferVars, port, writer, consumers, loops,
                   conn, arrived, created, senders>>

\* lines 83-89: disconnect is called; it stops the Background Reader (lines
\* 170-175) and cancels the reader, which ends the reads pending on it
DisconnectCall ==
    /\ disc.pc \in {"idle", "done", "threw"}
    /\ backgroundReadActive' = FALSE
    /\ backgroundReadPromise' = 0
    /\ IF reader # 0
       THEN /\ ops' = <<"stop", "reader.cancel">>
            /\ disc' = [disc EXCEPT !.pc = "cancel", !.rd = reader, !.error = "none",
                                    !.ok = streams[reader] \notin {"lost", "gone"}]
            /\ streams' = [streams EXCEPT ![reader] =
                               IF @ = "open" THEN "cancelled" ELSE @]
            /\ UNCHANGED <<connected, serialBuffer, bufferConsumers>>
       ELSE /\ DiscFromWriter(<<"stop">>)
            /\ UNCHANGED streams
    /\ UNCHANGED <<fileManager, scanVars, execVars, xferVars, port, reader, writer, consumers,
                   loops, conn, arrived, created, senders>>

\* lines 89-94: the cancel has resolved, after the reads it ended have been
\* handled; the reader is released
DiscCancelled ==
    /\ disc.pc = "cancel"
    /\ disc.ok
    /\ \A l \in DOMAIN loops : ~(loops[l].pc = "read" /\ loops[l].rd = disc.rd)
    /\ IF reader = 0
       THEN /\ disc' = [disc EXCEPT !.pc = "threw", !.error = "TypeError"]
            /\ UNCHANGED <<connected, serialBuffer, bufferConsumers, ops, streams, reader>>
       ELSE /\ streams' = [streams EXCEPT ![reader] =
                               IF @ \in {"lost", "gone"} THEN @ ELSE "released"]
            /\ reader' = 0
            /\ DiscFromWriter(Append(ops, "reader.releaseLock"))
    /\ UNCHANGED <<fileManager, scanVars, execVars, xferVars, port, writer, backgroundReadActive,
                   backgroundReadPromise, consumers, loops, conn, arrived, created, senders>>

\* lines 89, 115-117: the cancel rejects (the stream had failed) and
\* disconnect throws
DiscCancelFailed ==
    /\ disc.pc = "cancel"
    /\ ~disc.ok
    /\ disc' = [disc EXCEPT !.pc = "threw", !.error = "cancel failed"]
    /\ UNCHANGED <<fileManager, connected, scanVars, execVars, xferVars, port, reader, writer,
                   backgroundReadActive, backgroundReadPromise, serialBuffer,
                   bufferConsumers, consumers, loops, conn, ops, streams, arrived,
                   created, senders>>

\* lines 95-99: the writer has closed
DiscWriterClosed ==
    /\ disc.pc = "close"
    /\ streams[disc.wr] \notin {"lost", "gone"}
    /\ writer' = 0
    /\ DiscFromPort(ops)
    /\ UNCHANGED <<fileManager, scanVars, execVars, xferVars, port, reader, backgroundReadActive,
                   backgroundReadPromise, consumers, loops, conn, streams, arrived,
                   created, senders>>

\* lines 95, 115-117: the writer does not close and disconnect throws
DiscWriterCloseFailed ==
    /\ disc.pc = "close"
    /\ streams[disc.wr] \in {"lost", "gone"}
    /\ disc' = [disc EXCEPT !.pc = "threw", !.error = "close failed"]
    /\ UNCHANGED <<fileManager, connected, scanVars, execVars, xferVars, port, reader, writer,
                   backgroundReadActive, backgroundReadPromise, serialBuffer,
                   bufferConsumers, consumers, loops, conn, ops, streams, arrived,
                   created, senders>>

\* lines 100-111: the port has closed
DiscPortClosed ==
    /\ disc.pc = "portClose"
    /\ streams[disc.pt] \notin {"lost", "gone"}
    /\ streams' = [streams EXCEPT ![disc.pt] = "closed"]
    /\ port' = 0
    /\ DiscFinish(ops)
    /\ UNCHANGED <<fileManager, scanVars, execVars, xferVars, reader, writer, backgroundReadActive,
                   backgroundReadPromise, consumers, loops, conn, arrived, created, senders>>

\* lines 100, 115-117: the port does not close and disconnect throws
DiscPortCloseFailed ==
    /\ disc.pc = "portClose"
    /\ streams[disc.pt] \in {"lost", "gone"}
    /\ disc' = [disc EXCEPT !.pc = "threw", !.error = "close failed"]
    /\ UNCHANGED <<fileManager, connected, scanVars, execVars, xferVars, port, reader, writer,
                   backgroundReadActive, backgroundReadPromise, serialBuffer,
                   bufferConsumers, consumers, loops, conn, ops, streams, arrived,
                   created, senders>>

RECURSIVE DataOf(_)
\* newData.map(entry => entry.data).join(''), lines 253-255
DataOf(entries) ==
    IF entries = <<>> THEN <<>> ELSE entries[1].data \o DataOf(Tail(entries))

\* a function without the argument c
Without(f, c) == [x \in DOMAIN f \ {c} |-> f[x]]

\* lines 284-293 and 234-272: readUntilPrompt is called; it throws when not
\* connected, else it creates and registers its consumer
ConnRupStart ==
    /\ rup.status # "running"
    /\ created < MaxCalls
    /\ IF ~connected
       THEN /\ rup' = [RupIdle EXCEPT !.status = "threw"]
            /\ UNCHANGED <<lastLineEcho, received, emptyRun, consumers,
                           bufferConsumers, created>>
       ELSE /\ RupBegin
            /\ created' = created + 1
            /\ consumers' = [c \in DOMAIN consumers \cup {created + 1} |->
                                IF c = created + 1 THEN Len(serialBuffer)
                                ELSE consumers[c]]
            /\ bufferConsumers' = bufferConsumers \cup {created + 1}
    /\ UNCHANGED <<fileManager, connected, execVars, xferVars, port, reader, writer,
                   backgroundReadActive, backgroundReadPromise, serialBuffer, loops,
                   conn, disc, ops, streams, arrived, senders>>

\* ConnRupPoll that leaves the consumer registered when the call gives up
ConnRupPollLeakOnNull ==
    /\ rup.status = "running"
    /\ LET c == created
           fresh == consumers[c] < Len(serialBuffer)
           data == IF fresh
                   THEN DataOf(SubSeq(serialBuffer, consumers[c] + 1, Len(serialBuffer)))
                   ELSE <<>>
       IN  /\ RupStep(data)
           /\ IF rup'.status = "running"
              THEN /\ consumers' = [consumers EXCEPT ![c] =
                                        IF fresh THEN Len(serialBuffer) ELSE @]
                   /\ UNCHANGED bufferConsumers
              ELSE /\ consumers' = Without(consumers, c)
                   /\ bufferConsumers' = IF rup'.status = "null" THEN bufferConsumers
                                         ELSE bufferConsumers \ {c}
    /\ UNCHANGED <<fileManager, connected, execVars, xferVars, port, reader, writer,
                   backgroundReadActive, backgroundReadPromise, serialBuffer, loops,
                   conn, disc, ops, streams, arrived, created, senders>>

\* lines 296-348 with 247-262: one readWithTimeout of the consumer and the
\* loop iteration on its result; on return the consumer is removed
ConnRupPoll ==
    /\ rup.status = "running"
    /\ LET c == created
           fresh == consumers[c] < Len(serialBuffer)
           data == IF fresh
                   THEN DataOf(SubSeq(serialBuffer, consumers[c] + 1, Len(serialBuffer)))
                   ELSE <<>>
       IN  /\ RupStep(data)
           /\ IF rup'.status = "running"
              THEN /\ consumers' = [consumers EXCEPT ![c] =
                                        IF fresh THEN Len(serialBuffer) ELSE @]
                   /\ UNCHANGED bufferConsumers
              ELSE /\ consumers' = Without(consumers, c)
                   /\ bufferConsumers' = bufferConsumers \ {c}
    /\ UNCHANGED <<fileManager, connected, execVars, xferVars, port, reader, writer,
                   backgroundReadActive, backgroundReadPromise, serialBuffer, loops,
                   conn, disc, ops, streams, arrived, created, senders>>

ConnInit ==
    /\ connected = FALSE
    /\ lastLineEcho = <<>>
    /\ rup = RupIdle
    /\ received = <<>>
    /\ emptyRun = 0
    /\ ex = ExIdle
    /\ lineResult = Null
    /\ wire = <<>>
    /\ exLog = <<>>
    /\ up = UpIdle
    /\ dl = DlIdle
    /\ scripts = <<>>
    /\ dev = DevFresh(<<>>)
    /\ stream = <<>>
    /\ LinkFresh
    /\ fileManager = FmConstructed

\* the transport delivers a chunk, while the connections have delivered
\* fewer than ConnArrivals
ConnReadChunk == arrived < ConnArrivals /\ LoopReadChunk

ConnNext ==
    \/ ConnectCall
    \/ ConnectCancelled
    \/ ConnectRequested
    \/ ConnectOpenFailed
    \/ ConnectOpened
    \/ ConnReadChunk
    \/ LoopReadDone
    \/ LoopReadError
    \/ LoopDelayOver
    \/ Unplug
    \/ HandleUnexpectedDisconnect
    \/ DisconnectCall
    \/ DiscCancelled
    \/ DiscCancelFailed
    \/ DiscWriterClosed
    \/ DiscWriterCloseFailed
    \/ DiscPortClosed
    \/ DiscPortCloseFailed

SpecConn == ConnInit /\ [][ConnNext]_vars

-----------------------------------------------------------------------------
(* The buffer of one connection: the Background Reader stores chunks while  *)
(* readUntilPrompt calls consume them                                        *)

\* the controller after its first connect has returned true
BufferInit ==
    /\ connected = TRUE
    /\ lastLineEcho = <<>>
    /\ rup = RupIdle
    /\ received = <<>>
    /\ emptyRun = 0
    /\ ex = ExIdle
    /\ lineResult = Null
    /\ wire = <<>>
    /\ exLog = <<>>
    /\ up = UpIdle
    /\ dl = DlIdle
    /\ fileManager = FmConstructed
    /\ scripts = <<>>
    /\ dev = DevFresh(<<>>)
    /\ stream = <<>>
    /\ port = 1
    /\ reader = 1
    /\ writer = 1
    /\ backgroundReadActive = TRUE
    /\ backgroundReadPromise = 1
    /\ serialBuffer = <<>>
    /\ bufferConsumers = {}
    /\ consumers = <<>>
    /\ loops = <<[pc |-> "read", rd |-> 1]>>
    /\ conn = [pc |-> "idle", port |-> 1, result |-> "true"]
    /\ disc = [pc |-> "idle", rd |-> 0, ok |-> TRUE, wr |-> 0, pt |-> 0, error |-> "none"]
    /\ ops = <<>>
    /\ streams = [g \in 1..MaxConnects |-> IF g = 1 THEN "open" ELSE "none"]
    /\ arrived = 0
    /\ created = 0
    /\ senders = <<>>

\* the transport delivers a chunk, while it has delivered fewer than
\* MaxArrivals
BufferReadChunk == arrived < MaxArrivals /\ LoopReadChunk

BufferNext ==
    \/ BufferReadChunk
    \/ LoopReadError
    \/ LoopDelayOver
    \/ Unplug
    \/ HandleUnexpectedDisconnect
    \/ ConnRupStart
    \/ ConnRupPoll

SpecBuffer == BufferInit /\ [][BufferNext]_vars

-----------------------------------------------------------------------------
(* An upload to a remote that can be slow: a line is run when it is         *)
(* written, and its response can reach the page after the poll that waits   *)
(* for it has timed out                                                      *)

\* the controller connected to an interpreter after a reset, without files
SlowInit ==
    /\ XferInit
    /\ connected
    /\ dev = DevFresh(<<>>)

\* the payload uploaded to it
SlowPayloads == {<<"a">>}

\* lines 544-577: the call, up to its first await
SlowUploadCall ==
    /\ up.pc = "idle"
    /\ \E code \in SlowPayloads : UploadBegin(code)
    /\ UNCHANGED <<fileManager, linkVars, connected, dl>>

\* the lines of a call the remote is late for
MaxRetried == 1

\* the attempts after the first that the call has written
FurtherAttempts == {k \in DOMAIN exLog : exLog[k].attempt > 0}

\* lines 247-262: the 200 ms of a readWithTimeout pass while the response
\* is on its way, and the poll returns ''
XferPollLate ==
    /\ stream # <<>>
    /\ Cardinality(FurtherAttempts) < MaxRetried
    /\ RupStep(<<>>)
    /\ UNCHANGED <<fileManager, linkVars, connected, execVars, up, dl, scripts, dev, stream>>

SlowNext ==
    \/ SlowUploadCall
    \/ XferInterrupt2
    \/ XferPoll
    \/ XferPollLate
    \/ XferDrained
    \/ XferLineResult
    \/ UploadChunkReturned

SpecSlow == SlowInit /\ [][SlowNext]_vars

-----------------------------------------------------------------------------
(* The browser file store: the FileManager of file.js, the editor it is     *)
(* given, and the example loader                                            *)

\* the names and the texts the user enters
FileNames == {"a.py", "b.py"}
EditTexts == {"x", "y"}

\* what localStorage holds when the page loads
StoredFiles == {<<>>, <<[name |-> "a.py", content |-> "x"]>>}

\* the file and the text of setEditor without stored files (lines 194-210)
HelloWorld == "hello_world.py"
HelloText == "# Basic LED Blink Example"

\* the text of an example (the values of exampleManager.examples)
ExampleText == "# example"

\* Object.keys(files)
Names(files) == {files[k].name : k \in DOMAIN files}

\* files[name].content
ContentOf(files, name) ==
    files[CHOOSE k \in DOMAIN files : files[k].name = name].content

\* files[name].content = content
WithContent(files, name, content) ==
    [k \in DOMAIN files |->
        IF files[k].name = name THEN [files[k] EXCEPT !.content = content]
        ELSE files[k]]

\* the editor shows content for the file name
Shows(shown, name, content) ==
    [n \in DOMAIN shown \cup {name} |-> IF n = name THEN content ELSE shown[n]]

\* file.js lines 77-94: openFile(name) saves the editor's content to the
\* current file, then shows the file name, editable
OpenFile(fm, name) ==
    IF name \notin Names(fm.files) THEN fm
    ELSE LET saved == IF fm.currentFile # Null /\ fm.editor # Null
                      THEN WithContent(fm.files, fm.currentFile[1], fm.editor[1].value)
                      ELSE fm.files
         IN  IF fm.editor = Null
             THEN [fm EXCEPT !.files = saved, !.currentFile = Some(name)]
             ELSE [fm EXCEPT !.files = saved, !.currentFile = Some(name),
                             !.editor = Some([value |-> ContentOf(saved, name),
                                              readOnly |-> FALSE]),
                             !.shown = Shows(@, name, ContentOf(saved, name))]

\* file.js lines 24-35: createFile(name, content)
CreateFile(fm, name, content) ==
    IF name = "" \/ name \in Names(fm.files) THEN fm
    ELSE OpenFile([fm EXCEPT !.files = Append(@, [name |-> name, content |-> content])],
                  name)

\* file.js lines 187-210: setEditor(editor) on a FileManager with the files
\* stored
SetEditor(fm) ==
    LET f1 == [fm EXCEPT !.editor = Some([value |-> "", readOnly |-> FALSE])]
    IN  IF Len(f1.files) > 0
        THEN OpenFile(f1, IF f1.currentFile # Null THEN f1.currentFile[1]
                          ELSE f1.files[1].name)
        ELSE CreateFile(f1, HelloWorld, HelloText)

\* the variables of the controller and of the remote
robotVars == <<connected, scanVars, execVars, xferVars, linkVars>>

\* the page is loaded: the FileManager is constructed from localStorage and
\* given the editor
FilesInit ==
    /\ connected = FALSE
    /\ lastLineEcho = <<>>
    /\ rup = RupIdle
    /\ received = <<>>
    /\ emptyRun = 0
    /\ ex = ExIdle
    /\ lineResult = Null
    /\ wire = <<>>
    /\ exLog = <<>>
    /\ up = UpIdle
    /\ dl = DlIdle
    /\ scripts = <<>>
    /\ dev = DevFresh(<<>>)
    /\ stream = <<>>
    /\ LinkFresh
    /\ fileManager \in {SetEditor([FmConstructed EXCEPT !.files = stored]) :
                            stored \in StoredFiles}

\* the user types in the editor
EditorTyped ==
    /\ fileManager.editor # Null
    /\ ~fileManager.editor[1].readOnly
    /\ \E text \in EditTexts :
         fileManager' =
            [fileManager EXCEPT
                !.editor = Some([@[1] EXCEPT !.value = text]),
                !.shown = IF fileManager.currentFile = Null THEN @
                          ELSE Shows(@, fileManager.currentFile[1], text)]
    /\ UNCHANGED robotVars

\* file.js lines 157-166: promptNewFile, the user enters a name
PromptNewFile ==
    /\ \E name \in FileNames : fileManager' = CreateFile(fileManager, name, "")
    /\ UNCHANGED robotVars

\* file.js lines 134-138: the user clicks a file of the list
FileClicked ==
    /\ \E name \in Names(fileManager.files) : fileManager' = OpenFile(fileManager, name)
    /\ UNCHANGED robotVars

\* file.js lines 37-61: deleteFile(name) for a file of the list
DeleteFile ==
    /\ \E name \in Names(fileManager.files) :
         LET files == SelectSeq(fileManager.files, LAMBDA f : f.name # name)
             f1 == [fileManager EXCEPT
                       !.files = files,
                       !.currentFile = IF @ = Some(name) THEN Null ELSE @,
                       !.shown = [n \in DOMAIN @ \ {name} |-> @[n]]]
         IN  fileManager' =
                IF Len(files) > 0 THEN OpenFile(f1, files[1].name)
                ELSE IF f1.editor = Null THEN f1
                ELSE [f1 EXCEPT !.editor = Some([@[1] EXCEPT !.value = ""])]
    /\ UNCHANGED robotVars

\* file.js lines 63-75: renameFile(oldName, newName) for a file of the list;
\* it returns false when newName is in use
RenameFile ==
    /\ \E oldName \in Names(fileManager.files), newName \in FileNames :
         /\ newName # oldName
         /\ fileManager' =
               IF newName \in Names(fileManager.files) THEN fileManager
               ELSE [fileManager EXCEPT
                        !.files = Append(SelectSeq(@, LAMBDA f : f.name # oldName),
                                         [name |-> newName,
                                          content |-> ContentOf(fileManager.files, oldName)]),
                        !.currentFile = IF @ = Some(oldName) THEN Some(newName) ELSE @,
                        !.shown = [n \in (DOMAIN @ \ {oldName})
                                          \cup (IF oldName \in DOMAIN @ THEN {newName}
                                                ELSE {}) |->
                                      IF n = newName THEN @[oldName] ELSE @[n]]]
    /\ UNCHANGED robotVars

\* file.js lines 107-113, called by the timer of lines 150-154:
\* saveCurrentFile()
SaveCurrentFile ==
    /\ fileManager' =
         IF fileManager.currentFile # Null /\ fileManager.editor # Null
         THEN [fileManager EXCEPT
                  !.files = WithContent(@, fileManager.currentFile[1],
                                        fileManager.editor[1].value)]
         ELSE fileManager
    /\ UNCHANGED robotVars

\* exampleManager.loadExample (lines 58-86): the current file is cleared and
\* the editor shows the example, read-only
LoadExample ==
    /\ fileManager' =
         IF fileManager.editor = Null THEN fileManager
         ELSE [fileManager EXCEPT
                  !.currentFile = Null,
                  !.editor = Some([value |-> ExampleText, readOnly |-> TRUE])]
    /\ UNCHANGED robotVars

FilesNext ==
    \/ EditorTyped
    \/ PromptNewFile
    \/ FileClicked
    \/ DeleteFile
    \/ RenameFile
    \/ SaveCurrentFile
    \/ LoadExample

SpecFiles == FilesInit /\ [][FilesNext]_vars

-----------------------------------------------------------------------------
(* The shared connection: the page calls sendLine and robotSendRaw while    *)
(* earlier calls have not returned                                           *)

\* the lines and the raw data the page hands over
ShareLines == {<<"a">>}
ShareRaw == {<<CtrlC>>}

\* the calls that have written and whose prompt has not been found
Outstanding == {i \in DOMAIN senders : senders[i].pc \in {"write", "scan"}}

\* a call as it starts: its consumer (0 for none yet), the locals of its
\* readUntilPrompt, the number of operations made on its consumer, and the
\* number of chunks that had arrived when the call started
Sender(kind, pc) ==
    [kind |-> kind, pc |-> pc, consumer |-> 0, scan |-> RupIdle, polls |-> 0,
     since |-> arrived]

\* what a write hands to the writer: the text, the call that wrote it, and
\* the calls outstanding at the time
Written(text) == [by |-> Len(senders) + 1, text |-> text, during |-> Outstanding]

\* the controller connected, or as constructed
ShareInit == BufferInit \/ ConnInit

\* lines 358-367: sendLine is called; it throws when not connected or
\* without writer, else it hands the line and its terminator to the writer
SendLineCall ==
    /\ Len(senders) < MaxSenders
    /\ \E line \in ShareLines :
         IF ~connected \/ writer = 0
         THEN /\ senders' = Append(senders, Sender("sendLine", "threw"))
              /\ UNCHANGED wire
         ELSE /\ senders' = Append(senders, Sender("sendLine", "write"))
              /\ wire' = Append(wire, Written(line \o CRLF))
    /\ UNCHANGED <<fileManager, connected, scanVars, ex, lineResult, exLog, xferVars, port, reader,
                   writer, backgroundReadActive, backgroundReadPromise, serialBuffer,
                   bufferConsumers, consumers, loops, conn, disc, ops, streams,
                   arrived, created>>

\* lines 631-638: robotSendRaw is called; it writes when connected with a
\* writer and does nothing otherwise
SendRawCall ==
    /\ Len(senders) < MaxSenders
    /\ \E data \in ShareRaw :
         /\ senders' = Append(senders, Sender("sendRaw", "done"))
         /\ wire' = IF connected /\ writer # 0 THEN Append(wire, Written(data)) ELSE wire
    /\ UNCHANGED <<fileManager, connected, scanVars, ex, lineResult, exLog, xferVars, port, reader,
                   writer, backgroundReadActive, backgroundReadPromise, serialBuffer,
                   bufferConsumers, consumers, loops, conn, disc, ops, streams,
                   arrived, created>>

\* lines 367-368 and 284-293: the write of a sendLine call is done and its
\* readUntilPrompt starts, which creates and registers its consumer
SendLineWritten ==
    /\ \E i \in DOMAIN senders :
         /\ senders[i].pc = "write"
         /\ IF ~connected
            THEN /\ senders' = [senders EXCEPT ![i].pc = "threw"]
                 /\ UNCHANGED <<consumers, bufferConsumers, created>>
            ELSE /\ senders' = [senders EXCEPT ![i].pc = "scan",
                                               ![i].consumer = created + 1,
                                               ![i].scan = RupFresh]
                 /\ created' = created + 1
                 /\ consumers' = [c \in DOMAIN consumers \cup {created + 1} |->
                                     IF c = created + 1 THEN Len(serialBuffer)
                                     ELSE consumers[c]]
                 /\ bufferConsumers' = bufferConsumers \cup {created + 1}
    /\ UNCHANGED <<fileManager, connected, scanVars, execVars, xferVars, port, reader, writer,
                   backgroundReadActive, backgroundReadPromise, serialBuffer, loops,
                   conn, disc, ops, streams, arrived>>

\* SendLinePoll whose consumer takes what it reads out of the buffer
SendLinePollTakes ==
    /\ \E i \in DOMAIN senders :
         /\ senders[i].pc = "scan"
         /\ LET c == senders[i].consumer
                fresh == consumers[c] < Len(serialBuffer)
                data == IF fresh
                        THEN DataOf(SubSeq(serialBuffer, consumers[c] + 1,
                                           Len(serialBuffer)))
                        ELSE <<>>
                r == RupIteration(senders[i].scan, data)
            IN  /\ senders' = [senders EXCEPT
                                  ![i].scan = r[1],
                                  ![i].polls = @ + 1,
                                  ![i].pc = IF r[1].status = "running" THEN "scan"
                                            ELSE "done"]
                /\ lastLineEcho' = IF r[2] = Null THEN lastLineEcho ELSE r[2][1]
                /\ serialBuffer' = SubSeq(serialBuffer, 1, Min(consumers[c],
                                                               Len(serialBuffer)))
                /\ IF r[1].status = "running"
                   THEN /\ consumers' = [consumers EXCEPT ![c] = Len(serialBuffer')]
                        /\ UNCHANGED bufferConsumers
                   ELSE /\ consumers' = Without(consumers, c)
                        /\ bufferConsumers' = bufferConsumers \ {c}
    /\ UNCHANGED <<fileManager, connected, rup, received, emptyRun, execVars, xferVars, port, reader,
                   writer, backgroundReadActive, backgroundReadPromise, loops,
                   conn, disc, ops, streams, arrived, created>>

\* lines 296-348 with 247-262: one readWithTimeout of the consumer of a
\* call and the loop iteration on its result; on return the consumer is
\* removed
SendLinePoll ==
    /\ \E i \in DOMAIN senders :
         /\ senders[i].pc = "scan"
         /\ LET c == senders[i].consumer
                fresh == consumers[c] < Len(serialBuffer)
                data == IF fresh
                        THEN DataOf(SubSeq(serialBuffer, consumers[c] + 1,
                                           Len(serialBuffer)))
                        ELSE <<>>
                r == RupIteration(senders[i].scan, data)
            IN  /\ senders' = [senders EXCEPT
                                  ![i].scan = r[1],
                                  ![i].polls = @ + 1,
                                  ![i].pc = IF r[1].status = "running" THEN "scan"
                                            ELSE "done"]
                /\ lastLineEcho' = IF r[2] = Null THEN lastLineEcho ELSE r[2][1]
                /\ IF r[1].status = "running"
                   THEN /\ consumers' = [consumers EXCEPT ![c] =
                                             IF fresh THEN Len(serialBuffer) ELSE @]
                        /\ UNCHANGED bufferConsumers
                   ELSE /\ consumers' = Without(consumers, c)
                        /\ bufferConsumers' = bufferConsumers \ {c}
    /\ UNCHANGED <<fileManager, connected, rup, received, emptyRun, execVars, xferVars, port, reader,
                   writer, backgroundReadActive, backgroundReadPromise, serialBuffer,
                   loops, conn, disc, ops, streams, arrived, created>>

\* lines 240-244 and 265-267: readNew or reset of the consumer of a call
\* (no caller in robot.js; the holder of a consumer can call them): the
\* position moves to the end of the buffer, and what readNew returns is
\* dropped
ConsumerReadNewOrReset ==
    /\ \E i \in DOMAIN senders :
         /\ senders[i].pc = "scan"
         /\ senders[i].polls < MaxConsumerOps
         /\ senders' = [senders EXCEPT ![i].polls = @ + 1]
         /\ consumers' = [consumers EXCEPT ![senders[i].consumer] = Len(serialBuffer)]
    /\ UNCHANGED <<fileManager, connected, scanVars, execVars, xferVars, port, reader, writer,
                   backgroundReadActive, backgroundReadPromise, serialBuffer,
                   bufferConsumers, loops, conn, disc, ops, streams, arrived,
                   created>>

\* the transport delivers a chunk, while it has delivered fewer than
\* ShareArrivals
ShareReadChunk == arrived < ShareArrivals /\ LoopReadChunk

ShareNext ==
    \/ SendLineCall
    \/ SendRawCall
    \/ SendLineWritten
    \/ SendLinePoll
    \/ ConsumerReadNewOrReset
    \/ ShareReadChunk

SpecShare == ShareInit /\ [][ShareNext]_vars

-----------------------------------------------------------------------------
(* Claims about the prompt scanner *)

\* String.prototype.trimEnd, used to state what a response is
TrimEnd(s) ==
    LET keep == {i \in 1..Len(s) : ~IsSpace(s[i])}
    IN  IF keep = {} THEN <<>>
        ELSE SubSeq(s, 1, CHOOSE i \in keep : \A j \in keep : i >= j)

\* the received text after the first line terminator and before the marker
\* at its tail
TextBetweenEchoAndMarker(text) ==
    LET body == TrimEnd(SubstringFrom(text, IndexOf(text, CRLF) + 2))
    IN  Substring(body, 0, Len(body) - 3)

\* text with all its white space removed
RECURSIVE Squeeze(_)
Squeeze(s) ==
    IF s = <<>> THEN <<>>
    ELSE IF IsSpace(s[1]) THEN Squeeze(Tail(s)) ELSE <<s[1]>> \o Squeeze(Tail(s))

\* C4 (as claimed): readUntilPrompt returns null only when the two most
\* recent polls were both empty, i.e. an empty poll followed by a non-empty
\* poll does not count towards a later failure.
C4_NullOnlyAfterTwoConsecutiveEmptyPolls ==
    rup.status = "null" => emptyRun >= 2

\* C4 (what the code does): null is returned exactly at the second empty
\* poll of the call, consecutive or not.
C4_NullAtSecondEmptyPoll ==
    /\ rup.status = "null" => rup.retryCount = 2
    /\ rup.status = "running" => rup.retryCount <= 1
    /\ emptyRun <= rup.retryCount

\* C5 (as claimed): the returned output is exactly the text received after
\* the first CRLF and before the prompt marker that ends the scan.
C5_OutputIsTextBetweenEchoAndMarker ==
    rup.status = "returned" => rup.result = Some(TextBetweenEchoAndMarker(received))

\* C5 (what the code does): the echo is recorded and never returned, the scan
\* ends in PromptSeen, and the output is the text between echo and marker up
\* to white space.
C5_OutputUpToWhiteSpace ==
    rup.status = "returned" =>
        /\ rup.receiveMode = 2
        /\ lastLineEcho = Substring(received, 0, IndexOf(received, CRLF))
        /\ Squeeze(rup.result[1]) = Squeeze(TextBetweenEchoAndMarker(received))

\* C5 (the example of the specification): 'echo CRLF data... CRLF' followed by
\* '>>> ' yields 'data'.
C5_Example ==
    (rup.status = "returned" /\ StartsWith(received, ExampleFirst)) =>
        rup.result = Some(<<"d", "a", "t", "a">>)

\* C6: a non-null string is returned only if the scan reached PromptSeen with
\* a prompt marker at the tail of the received text; every other exit keeps
\* the result null, so null and the empty string are not confused.
C6_NonNullOnlyAfterPrompt ==
    /\ rup.result # Null =>
         /\ rup.status = "returned"
         /\ rup.receiveMode = 2
         /\ \/ EndsWith(Trim(received), PromptMarker)
            \/ EndsWith(Trim(received), ContinuationMarker)
    /\ rup.status = "returned" => rup.result # Null
    /\ rup.status = "null" => rup.receiveMode # 2

\* C6 witness: a successful response that is the empty string.
C6_EmptySuccess ==
    rup.status = "returned" /\ rup.result = Some(<<>>) /\ received # <<>>

-----------------------------------------------------------------------------
(* Claims about the raw executor *)

\* a response the retry loop must not accept: null, or one with the
\* remote-exception marker
Rejected(result) == result = Null \/ Includes(result[1], Traceback)

\* the line of a log entry is subject to the retry loop
Retried(entry) == ex.retry /\ ~StartsWith(entry.text, ExecMarker)

\* lineResult is the response to log entry k
AnsweredBy(k) ==
    \/ k = Len(exLog) /\ ex.pc \in {"done", "threw"}
    \/ k = Len(exLog) - 1 /\ ex.pc = "await"

\* the texts of the first attempts of a log
RECURSIVE FirstAttempts(_)
FirstAttempts(log) ==
    IF log = <<>> THEN <<>>
    ELSE (IF log[1].attempt = 0 THEN <<log[1].text>> ELSE <<>>) \o FirstAttempts(Tail(log))

\* the payload lines that are not blank, untrimmed, each sentinel replaced by
\* the empty line
RECURSIVE NonBlankLines(_)
NonBlankLines(lines) ==
    IF lines = <<>> THEN <<>>
    ELSE (IF Trim(lines[1]) = <<>> THEN <<>>
          ELSE IF lines[1] = <<"_EMPTY_">> THEN <<<<>>>>
          ELSE <<lines[1]>>) \o NonBlankLines(Tail(lines))

\* the payload lines that are not blank, trimmed, each one that is the
\* sentinel replaced by the empty line
RECURSIVE TrimmedNonBlankLines(_)
TrimmedNonBlankLines(lines) ==
    IF lines = <<>> THEN <<>>
    ELSE (IF Trim(lines[1]) = <<>> THEN <<>>
          ELSE IF Trim(lines[1]) = <<"_EMPTY_">> THEN <<<<>>>>
          ELSE <<Trim(lines[1])>>) \o TrimmedNonBlankLines(Tail(lines))

IsPrefix(s, t) == Len(s) <= Len(t) /\ SubSeq(t, 1, Len(s)) = s

\* C7: with retry enabled a line that does not start with 'exec(' is written
\* at most 3 times, a further attempt is written only after a rejected
\* response, the loop moves on only after an accepted one, and after 3
\* rejected attempts the call fails with that line the last one written.
C7_RetryAtMostThreeStopAtFirstAccepted ==
    /\ \A k \in DOMAIN exLog :
         /\ exLog[k].attempt \in 0..2
         /\ exLog[k].attempt > 0 =>
              /\ Retried(exLog[k])
              /\ exLog[k - 1].line = exLog[k].line
              /\ exLog[k - 1].attempt = exLog[k].attempt - 1
              /\ AnsweredBy(k - 1) => Rejected(lineResult)
         /\ (exLog[k].attempt = 0 /\ k > 1) => exLog[k - 1].line < exLog[k].line
         /\ (Retried(exLog[k]) /\ AnsweredBy(k) /\ ex.pc # "threw") =>
              (Rejected(lineResult) <=> k < Len(exLog) /\ exLog[k + 1].line = exLog[k].line)
    /\ ex.error = "Failed to send line after retries" =>
         /\ ex.pc = "threw"
         /\ exLog[Len(exLog)].attempt = 2
         /\ exLog[Len(exLog)].line = ex.i
         /\ Rejected(lineResult)
         /\ wire[Len(wire)] = exLog[Len(exLog)].text \o CRLF

\* C7 witness: a line accepted on its second attempt, the next line written
\* without a third attempt.
C7_AcceptedOnSecondAttempt ==
    \E k \in DOMAIN exLog :
        /\ exLog[k].attempt = 1
        /\ k < Len(exLog)
        /\ exLog[k + 1].line > exLog[k].line

\* a call that failed after three rejected attempts with a payload line left
C7_FailedAfterThree ==
    /\ ex.error = "Failed to send line after retries"
    /\ \E j \in (ex.i + 1)..Len(ex.lines) : Trim(ex.lines[j]) # <<>>

\* C8: with retry disabled, or for a line starting with 'exec(', the line is
\* written exactly once; a null response fails the call with that line the
\* last one written, any other response lets the loop go on.
C8_SingleShotWrittenOnce ==
    /\ \A k \in DOMAIN exLog :
         ~Retried(exLog[k]) =>
             /\ exLog[k].attempt = 0
             /\ \A m \in DOMAIN exLog : exLog[m].line = exLog[k].line => m = k
             /\ AnsweredBy(k) => (lineResult = Null <=> ex.pc = "threw")
    /\ ex.error = "Failed to send line to device" =>
         /\ ex.pc = "threw"
         /\ lineResult = Null
         /\ ~Retried(exLog[Len(exLog)])
         /\ exLog[Len(exLog)].line = ex.i
         /\ wire[Len(wire)] = exLog[Len(exLog)].text \o CRLF

\* C8 witness: an 'exec(' line under retry answered by null, with a payload
\* line left that is never written.
C8_ExecLineFailedOnce ==
    /\ ex.error = "Failed to send line to device"
    /\ ex.retry
    /\ \E j \in (ex.i + 1)..Len(ex.lines) : Trim(ex.lines[j]) # <<>>

\* C9 (as claimed): with retry disabled the call does not complete as a
\* success once a response contained the remote-exception marker.
C9_TracebackSurfacedWithoutRetry ==
    (~ex.retry /\ ex.pc = "done" /\ lineResult # Null) =>
        ~Includes(lineResult[1], Traceback)

\* C10 (as claimed): the lines written are the non-blank payload lines in
\* order, each sentinel replaced by the empty line.
C10_WrittenLinesArePayloadLines ==
    ex.pc = "done" => FirstAttempts(exLog) = NonBlankLines(PayloadLines(ex.code))

\* C10 (amended): the lines written are the trimmed non-blank payload lines in
\* order, each one whose trimmed text is the sentinel replaced by the empty
\* line; blank lines are never written.
C10_WrittenLinesAreTrimmedPayloadLines ==
    /\ ex.pc \in {"await", "threw", "done"} =>
         IsPrefix(FirstAttempts(exLog), TrimmedNonBlankLines(PayloadLines(ex.code)))
    /\ ex.pc = "done" =>
         FirstAttempts(exLog) = TrimmedNonBlankLines(PayloadLines(ex.code))
    /\ \A k \in DOMAIN exLog : wire[k + 2] = exLog[k].text \o CRLF
    /\ Len(wire) = Len(exLog) + (IF ex.pc = "sleep" THEN 1 ELSE IF wire = <<>> THEN 0 ELSE 2)

\* C10 witness: a completed call that skipped a blank line and sent a
\* sentinel as the empty line before another line.
C10_SentinelSentBlankSkipped ==
    /\ ex.pc = "done"
    /\ Len(exLog) >= 2
    /\ exLog[1].text = <<>>
    /\ exLog[2].text # <<>>
    /\ Len(PayloadLines(ex.code)) > Len(FirstAttempts(exLog))

\* C11: the first two writes of a call are the interrupt character and no
\* later write is; a payload line is written only after the drain that
\* follows the second interrupt has returned text; a drain that returns null
\* fails the call with the device-not-responding error, with the two
\* interrupts the only writes.
C11_TwoInterruptsThenDrain ==
    /\ \A k \in DOMAIN wire : (wire[k] = <<"^C">>) <=> (k <= 2)
    /\ ex.pc = "sleep" <=> Len(wire) = 1
    /\ ex.pc = "drain" => (Len(wire) = 2 /\ ex.drained = "no")
    /\ Len(wire) > 2 => ex.drained = "text"
    /\ ex.drained = "null" =>
         /\ ex.pc = "threw"
         /\ ex.error = "Device is not responding"
         /\ wire = <<<<"^C">>, <<"^C">>>>
         /\ exLog = <<>>
    /\ ex.error = "Device is not responding" => ex.drained = "null"

\* C11 witness: the drain returned null in a call whose payload has a line
\* to send.
C11_DrainFailedBeforePayload ==
    /\ ex.drained = "null"
    /\ \E j \in DOMAIN PayloadLines(ex.code) : Trim(PayloadLines(ex.code)[j]) # <<>>

-----------------------------------------------------------------------------
(* Claims about upload and download *)

RECURSIVE ChunksOf(_)
\* the chunks of the recorded wrapCodeHex calls, concatenated
ChunksOf(calls) ==
    IF calls = <<>> THEN <<>> ELSE calls[1].chunk \o ChunksOf(Tail(calls))

\* the writes that open a file in the given mode
OpensIn(mode) ==
    {k \in DOMAIN wire : wire[k][1] = "f_ = open('" /\ Includes(wire[k], <<mode>>)}

\* a completed upload has left the bytes of the payload in the target file
UploadStoresPayload ==
    (up.pc = "done" /\ up.code # <<>>) =>
        /\ up.filename \in DOMAIN dev.files
        /\ dev.files[up.filename] = Utf8(up.code)

\* C1 (as claimed): every chunk handed to wrapCodeHex has at most c/2
\* characters, and an upload that completes has made ceil(n / (c/2))
\* executeCodeRaw calls.
C1_ChunksAreHalfTheEncoderChunk ==
    /\ \A k \in DOMAIN scripts : Len(scripts[k].chunk) <= HalfChunk
    /\ up.pc = "done" => Len(scripts) = (Len(up.code) + HalfChunk - 1) \div HalfChunk

\* C1 (what the code does): the chunks have at most c characters and there
\* are ceil(n / c) of them.
C1_ChunksAreTheEncoderChunk ==
    /\ \A k \in DOMAIN scripts : Len(scripts[k].chunk) <= 2 * HalfChunk
    /\ up.pc = "done" =>
         Len(scripts) = (Len(up.code) + 2 * HalfChunk - 1) \div (2 * HalfChunk)

\* C2 (as claimed): the chunks are sent in order and make up the payload,
\* chunk 0 is written in mode 'wb' and every later chunk in mode 'ab', and an
\* upload truncates the remote file exactly once.
C2_InOrderTruncatedOnce ==
    /\ \A k \in DOMAIN scripts : scripts[k].append = (k > 1)
    /\ \A k \in OpensIn("wb") : \A m \in OpensIn("ab") : k < m
    /\ up.pc = "done" =>
         /\ ChunksOf(scripts) = up.code
         /\ Cardinality(OpensIn("wb")) = 1
         /\ Cardinality(OpensIn("ab")) = Len(scripts) - 1

\* C2 (what the code does for a payload that is not empty)
C2_InOrderTruncatedOnceIfNotEmpty ==
    /\ \A k \in DOMAIN scripts : scripts[k].append = (k > 1)
    /\ \A k \in OpensIn("wb") : \A m \in OpensIn("ab") : k < m
    /\ up.pc = "done" =>
         /\ ChunksOf(scripts) = up.code
         /\ up.code # <<>> => Cardinality(OpensIn("wb")) = 1
         /\ up.code # <<>> => Cardinality(OpensIn("ab")) = Len(scripts) - 1

\* C3 (as claimed): a download of the file named in the call, after a
\* completed upload under that name, returns the payload with CRLF replaced
\* by LF.
C3_RoundTrip ==
    (up.pc = "done" /\ dl.pc \in {"done", "threw"}) =>
        /\ dl.pc = "done"
        /\ dl.content = Some(ReplaceCRLF(up.code))

\* C3, for payloads that are not empty and are stored under the name asked for
C3_RoundTripIfNotEmpty ==
    (up.pc = "done" /\ up.filename = dl.filename /\ dl.pc \in {"done", "threw"}
        /\ up.code # <<>>) =>
        /\ dl.pc = "done"
        /\ dl.content = Some(ReplaceCRLF(up.code))

\* C3, for payloads without white space and without '.' and '>', on a device
\* whose reads succeed
C3_RoundTripIfPlain ==
    (up.pc = "done" /\ up.filename = dl.filename /\ dl.pc \in {"done", "threw"}
        /\ ~dev.readFails
        /\ up.code # <<>> /\ \A k \in DOMAIN up.code : up.code[k] \in {"a", "g"}) =>
        /\ dl.pc = "done"
        /\ dl.content = Some(ReplaceCRLF(up.code))

\* the writes that start the script of a chunk (its line 395)
AllocWrites == {k \in DOMAIN wire : wire[k] # <<>> /\ wire[k][1] = "import gc; gc.collect(); b_ = bytearray("}

\* C12: once an executeCodeRaw call of an upload has thrown, the upload has
\* thrown with the same error, the chunk that failed is the last one whose
\* script was started, and the last write is the line that failed; an upload
\* is done only if no call threw.
C12_FailedChunkFailsUpload ==
    /\ up.failures > 0 =>
         /\ up.pc = "threw"
         /\ up.failures = 1
         /\ ex.pc = "threw"
         /\ up.error = ex.error
         /\ Len(scripts) = up.i + 1
         /\ Cardinality(AllocWrites) = up.i + 1
         /\ exLog # <<>> => wire[Len(wire)] = exLog[Len(exLog)].text \o CRLF
    /\ (up.pc = "running" /\ ex.pc = "threw") => Len(scripts) = up.i + 1
    /\ (up.pc = "threw" /\ connected) => up.failures = 1
    /\ up.pc = "done" =>
         /\ up.failures = 0
         /\ Len(scripts) = up.chunks
         /\ up.chunks > 0 => ex.pc = "done"

\* C12 witness: an upload that failed at a chunk after the first with a
\* chunk left, on a connected controller.
C12_FailedWithChunksLeft ==
    /\ up.pc = "threw"
    /\ connected
    /\ 0 < up.i
    /\ up.i + 1 < up.chunks

\* C14 (as claimed): a download that returns content had no command answered
\* by null or by a remote exception.
C14_NoFalseSuccess == dl.pc = "done" => ~dl.bad

\* a download that returned what an earlier download had left in the variable
\* content, after its read command raised
C14_StaleContentReturned ==
    /\ dl.pc = "done"
    /\ dl.bad
    /\ dl.filename \in DOMAIN dev.files
    /\ dl.content # Some(DecodeBytes(dev.files[dl.filename]))

\* the tokens of a response after its first start marker and before its
\* first end marker
MarkedText(r) ==
    LET a == CHOOSE i \in DOMAIN r : r[i] = "===FILE_START===" /\ \A j \in 1..(i - 1) : r[j] # r[i]
        b == CHOOSE i \in DOMAIN r : r[i] = "===FILE_END===" /\ \A j \in 1..(i - 1) : r[j] # r[i]
    IN  SubSeq(r, a + 1, b - 1)

\* both markers occur in a response
BothMarkers(r) ==
    /\ \E i \in DOMAIN r : r[i] = "===FILE_START==="
    /\ \E i \in DOMAIN r : r[i] = "===FILE_END==="

\* the line ends of a text, each CR LF pair made one LF
RECURSIVE Normalised(_)
Normalised(t) ==
    IF Len(t) >= 2 /\ t[1] = CR /\ t[2] = LF THEN <<LF>> \o Normalised(SubSeq(t, 3, Len(t)))
    ELSE IF Len(t) >= 1 THEN <<t[1]>> \o Normalised(Tail(t))
    ELSE <<>>

\* C13 (as claimed): the step that handles the response to the print command
\* returns content exactly when both markers occur in the response, the
\* content then is the text between the start marker and the end marker with
\* CR LF made LF, and otherwise the call fails.
C13_ContentIsTextBetweenMarkers ==
    [][(dl.pc = "print" /\ rup.result # Null) =>
          /\ dl'.pc \in {"done", "threw"}
          /\ dl'.pc = "done" <=> BothMarkers(rup.result[1])
          /\ dl'.pc = "done" =>
                dl'.content = Some(Normalised(MarkedText(rup.result[1])))]_vars

\* the first start marker of a response comes before its first end marker
StartBeforeEnd(r) ==
    \E i \in DOMAIN r :
        /\ r[i] = "===FILE_START==="
        /\ \A j \in 1..i : r[j] # "===FILE_END==="

\* C13, for responses whose first end marker does not come before the
\* first start marker
C13_ContentIsTextBetweenMarkersInOrder ==
    [][(dl.pc = "print" /\ rup.result # Null
            /\ (BothMarkers(rup.result[1]) => StartBeforeEnd(rup.result[1]))) =>
          /\ dl'.pc \in {"done", "threw"}
          /\ dl'.pc = "done" <=> BothMarkers(rup.result[1])
          /\ dl'.pc = "done" =>
                dl'.content = Some(Normalised(MarkedText(rup.result[1])))]_vars

-----------------------------------------------------------------------------
(* Claims about the buffer and its consumers *)

\* C15: the buffer never holds more than BufferLimit entries; its entries
\* are the most recent arrivals in order; and once BufferLimit + 1 chunks
\* have been stored on a connection the buffer holds exactly BufferKeep.
C15_BufferCutToKeep ==
    /\ Len(serialBuffer) <= 2 * BufferKeep
    /\ \A i \in DOMAIN serialBuffer : serialBuffer[i].n = serialBuffer[1].n + i - 1
    /\ serialBuffer # <<>> => serialBuffer[Len(serialBuffer)].n = arrived
    /\ (connected /\ arrived = 2 * BufferKeep + 1) => Len(serialBuffer) = BufferKeep

\* C15 witness: the chunk that exceeds the limit has been stored and the
\* buffer has been cut.
C15_CutHappened ==
    /\ connected
    /\ arrived = 2 * BufferKeep + 1
    /\ Len(serialBuffer) = BufferKeep
    /\ serialBuffer[1].n = BufferKeep + 2

\* a step that cuts the buffer, and the number of entries it removes from
\* the front of what the buffer held
Cut ==
    /\ serialBuffer # <<>>
    /\ serialBuffer' # <<>>
    /\ serialBuffer'[1].n > serialBuffer[1].n
Removed == serialBuffer'[1].n - serialBuffer[1].n

\* C16 (as claimed): on a cut the position of every registered consumer is
\* decreased by the number of entries removed, and is 0 if that is negative.
C16_CursorDecreasedByRemoved ==
    [][Cut => \A c \in bufferConsumers :
                 consumers'[c] = IF consumers[c] > Removed THEN consumers[c] - Removed
                                 ELSE 0]_vars

\* C16 (what the code does): a cut removes BufferKeep + 1 entries and
\* decreases the positions above BufferKeep by BufferKeep.
C16_CursorDecreasedByKeep ==
    [][Cut => /\ Removed = BufferKeep + 1
              /\ \A c \in bufferConsumers :
                    consumers'[c] = IF consumers[c] > BufferKeep
                                    THEN consumers[c] - BufferKeep ELSE 0]_vars

\* a cut has left a registered consumer at the end of the buffer although
\* the newest entry arrived after its last read
C16_NewestChunkSkipped ==
    /\ rup.status = "running"
    /\ created \in bufferConsumers
    /\ consumers[created] = Len(serialBuffer)
    /\ serialBuffer # <<>>
    /\ Len(received) < Len(DataOf(serialBuffer))
    /\ received = <<>>

\* C17: the registry holds no consumer but that of a readUntilPrompt call
\* that is running; a call that has returned, given up or thrown has left
\* none.
C17_ConsumerRemovedOnExit ==
    /\ bufferConsumers \subseteq {created}
    /\ rup.status # "running" => bufferConsumers = {}
    /\ DOMAIN consumers \subseteq {created}
    /\ rup.status # "running" => DOMAIN consumers = {}

\* C17 witness: a second call has given up on a connected controller, after
\* a first call ended.
C17_SecondCallGaveUp ==
    /\ connected
    /\ created = 2
    /\ rup.status = "null"

-----------------------------------------------------------------------------
(* Claims about connect and disconnect *)

\* the steps of a log come in the order of the list
IsOrdered(log, order) ==
    \A i, j \in DOMAIN log :
        i < j => \E a, b \in DOMAIN order : a < b /\ order[a] = log[i] /\ order[b] = log[j]

\* C18 (as claimed): disconnect stops the Background Reader, releases the
\* writer, releases the reader, closes the port, then clears.
C18_WriterBeforeReader ==
    IsOrdered(ops, <<"stop", "writer.close", "reader.cancel", "reader.releaseLock",
                     "port.close", "clear">>)

\* C18 (amended): disconnect stops the Background Reader, cancels and
\* releases the reader, closes the writer, closes the port, then clears; the
\* stop comes first and a call that returns has cleared last.
C18_ReaderBeforeWriter ==
    /\ IsOrdered(ops, <<"stop", "reader.cancel", "reader.releaseLock", "writer.close",
                        "port.close", "clear">>)
    /\ ops # <<>> => ops[1] = "stop"
    /\ disc.pc = "done" <=> (ops # <<>> /\ ops[Len(ops)] = "clear")

\* C18 witness: a disconnect that took every step.
C18_AllStepsTaken ==
    /\ disc.pc = "done"
    /\ ops = <<"stop", "reader.cancel", "reader.releaseLock", "writer.close",
               "port.close", "clear">>

\* the loops that have not ended
Running == {l \in DOMAIN loops : loops[l].pc # "exited"}

\* C19 (as claimed): while a disconnect has cancelled or released the
\* reader, or closed the writer or the port, no Background Reader loop is
\* left that has not seen the stop flag, that is, every loop has ended.
C19_LoopEndedBeforeRelease ==
    (/\ disc.pc \in {"cancel", "close", "portClose"}
     /\ \E k \in DOMAIN ops : ops[k] = "reader.cancel") => Running = {}

\* C19 (what the code ensures): once the reader is released no loop is
\* suspended in a read on it, and no loop issues a read on a released reader.
C19_NoReadOnReleasedReader ==
    /\ disc.pc \in {"close", "portClose"} =>
         \A l \in DOMAIN loops : ~(loops[l].pc = "read" /\ loops[l].rd = disc.rd)
    /\ [][\A l \in DOMAIN loops :
            (l \in DOMAIN loops' /\ loops'[l] # loops[l] /\ loops'[l].pc = "read") =>
                streams'[loops'[l].rd] \notin {"released", "closed"}]_vars

\* a disconnect goes on to close the writer while a loop waits in its error
\* delay, the stop flag not seen
C19_ReleasedDuringDelay ==
    /\ disc.pc \in {"close", "portClose"}
    /\ \E l \in DOMAIN loops : loops[l].pc = "delay"

\* C20 (as claimed): no two loops are suspended in a read on the same
\* reader.
C20_OneLoopPerReader ==
    \A l, m \in DOMAIN loops :
        (l # m /\ loops[l].pc = "read" /\ loops[m].pc = "read") =>
            loops[l].rd # loops[m].rd

\* C22: the step in which the disconnect event of a lost port is handled
\* leaves the controller disconnected with reader, writer and port cleared,
\* the Background Reader stopped, the buffer and the registry empty; it
\* takes no step of disconnect, and cancels, releases or closes no stream.
C22_LossHandledWithoutClosing ==
    [][(\E g \in 1..MaxConnects : streams[g] = "lost" /\ streams'[g] = "gone") =>
          /\ ~connected'
          /\ reader' = 0 /\ writer' = 0 /\ port' = 0
          /\ ~backgroundReadActive'
          /\ serialBuffer' = <<>>
          /\ bufferConsumers' = {}
          /\ ops' = ops /\ disc' = disc
          /\ \A g \in 1..MaxConnects :
                streams'[g] # streams[g] => streams'[g] = "gone"]_vars

\* C22 witness: the loss was handled when the buffer held chunks and a
\* readUntilPrompt call had its consumer registered.
C22_LossHandledDuringCall ==
    /\ streams[1] = "gone"
    /\ ~connected
    /\ reader = 0
    /\ arrived > 0
    /\ serialBuffer = <<>>
    /\ rup.status = "running"
    /\ bufferConsumers = {}

\* C23: when the selection of a port is cancelled connect returns false;
\* the controller stays disconnected, takes no reader or writer, starts no
\* Background Reader and leaves the buffer unchanged.
C23_CancelReturnsFalse ==
    [][(conn.pc = "request" /\ conn'.pc = "idle") =>
          /\ conn'.result = "false"
          /\ ~connected'
          /\ reader' = reader /\ writer' = writer
          /\ loops' = loops
          /\ backgroundReadActive' = backgroundReadActive
          /\ serialBuffer' = serialBuffer]_vars

\* C23 witness: a connect was cancelled after an earlier connection.
C23_CancelledAfterConnection ==
    /\ conn.pc = "idle"
    /\ conn.result = "false"
    /\ streams[1] # "none"
    /\ ~connected

\* C24 (as claimed): the position of every consumer a readUntilPrompt call
\* holds is between 0 and the length of the buffer.
C24_CursorWithinBuffer ==
    \A c \in DOMAIN consumers : consumers[c] \in 0..Len(serialBuffer)

\* C24 (what the code ensures): the position of every registered consumer
\* is between 0 and the length of the buffer.
C24_RegisteredCursorWithinBuffer ==
    \A c \in bufferConsumers : consumers[c] \in 0..Len(serialBuffer)

\* a call in flight holds a consumer beyond the end of the cleared buffer
C24_CursorBeyondClearedBuffer ==
    /\ rup.status = "running"
    /\ serialBuffer = <<>>
    /\ consumers[created] > 0

\* the entries of the buffer a consumer has not read
Unread(c) == SubSeq(serialBuffer, consumers[c] + 1, Len(serialBuffer))

\* C25 (as claimed): when a chunk is stored, a registered consumer whose
\* unread entries, the new one included, are no more than BufferKeep has as
\* unread entries what it had, followed by the new entry; and a read hands
\* over exactly the unread entries.
C25_EveryChunkOnceInOrder ==
    [][/\ arrived' = arrived + 1 =>
            \A c \in bufferConsumers :
                Len(Unread(c)) + 1 <= BufferKeep =>
                    Unread(c)' = Append(Unread(c), serialBuffer'[Len(serialBuffer')])
       /\ (rup.status = "running" /\ received' # received /\ created \in bufferConsumers) =>
            received' = received \o DataOf(Unread(created))]_vars

\* C25 (what the code ensures): the same while the buffer is not cut.
C25_EveryChunkOnceInOrderUncut ==
    [][/\ (arrived' = arrived + 1 /\ Len(serialBuffer) < 2 * BufferKeep) =>
            \A c \in bufferConsumers :
                Unread(c)' = Append(Unread(c), serialBuffer'[Len(serialBuffer')])
       /\ (rup.status = "running" /\ received' # received /\ created \in bufferConsumers) =>
            received' = received \o DataOf(Unread(created))]_vars

\* C26: a loop whose read fails stores nothing and, the Background Reader
\* being active, waits; after its wait it reads again if the Background
\* Reader is active, the controller connected and the reader present, and
\* ends otherwise; a loop ends only on the end of the stream or when that
\* condition is false.
C26_LoopSurvivesReadFailure ==
    [][\A l \in DOMAIN loops :
          LET failed == /\ loops[l].pc = "read"
                        /\ streams[loops[l].rd] \in {"lost", "gone", "released"}
              ended == /\ loops[l].pc = "read"
                       /\ streams[loops[l].rd] \in {"cancelled", "closed"}
              goesOn == backgroundReadActive /\ connected /\ reader # 0
          IN  loops'[l] # loops[l] =>
                /\ failed => serialBuffer' = serialBuffer /\ arrived' = arrived
                /\ (failed /\ backgroundReadActive) => loops'[l].pc = "delay"
                /\ loops[l].pc = "delay" =>
                      loops'[l].pc = IF goesOn THEN "read" ELSE "exited"
                /\ loops'[l].pc = "exited" => ended \/ ~goesOn]_vars

\* C26 witness: a loop waits after a failed read, the Background Reader
\* active and the controller connected.
C26_WaitingAfterFailure ==
    /\ backgroundReadActive
    /\ connected
    /\ reader # 0
    /\ \E l \in DOMAIN loops : loops[l].pc = "delay"

-----------------------------------------------------------------------------
(* Claims about text held back and about chunk boundaries *)

\* the call holds text back in its data phase
Held == rup.status = "running" /\ rup.receiveMode = 1 /\ rup.pending # <<>>

\* what the poll of a step handed over, and the text the step works on
Polled == SubSeq(received', Len(received) + 1, Len(received'))
Worked == rup.pending \o Polled

\* the step lets go of the held text, no character of which belongs to the
\* marker that ends the call
Released ==
    /\ Held
    /\ Polled # <<>>
    /\ rup'.pending = <<>>
    /\ rup'.status = "returned" => Len(TrimEnd(Worked)) - 3 >= Len(rup.pending)

\* C28 (as claimed): held text is not added to the output while it is held,
\* and the step that lets go of it adds it once, whole, where the output
\* ended.
C28_HeldTextEmittedOnce ==
    [][/\ (rup.status = "running" /\ rup'.pending # <<>>) => rup'.output = rup.output
       /\ Released => IsPrefix(rup.output \o rup.pending, rup'.output)]_vars

\* C28 (what the code does): the step that lets go of held text adds it and
\* the new data, after a trim of the whole when the step ends the call.
C28_HeldTextEmittedTrimmed ==
    [][/\ (rup.status = "running" /\ rup'.pending # <<>>) => rup'.output = rup.output
       /\ Released =>
            rup'.output = rup.output \o
                (IF rup'.status = "returned"
                 THEN Substring(Trim(Worked), 0, Len(Trim(Worked)) - 3)
                 ELSE Worked)]_vars

\* the call that is handed the received text in one poll
InOnePoll == RupIteration(RupFresh, received)[1]

\* C30 (as claimed): a call that returned without an empty poll returned
\* what the call returns that is handed the same text in one poll.
C30_ResultIndependentOfChunks ==
    (rup.status = "returned" /\ rup.retryCount = 0 /\ InOnePoll.status = "returned") =>
        rup.result = InOnePoll.result

\* C30 (what the code ensures): the two results are equal up to white space.
C30_ResultIndependentUpToWhiteSpace ==
    (rup.status = "returned" /\ rup.retryCount = 0 /\ InOnePoll.status = "returned") =>
        Squeeze(rup.result[1]) = Squeeze(InOnePoll.result[1])

-----------------------------------------------------------------------------
(* Claims about the script of the transfer encoder *)

\* the payload of the script, its bytes, and the hex chunks of the script
\* in the order of its lines
WrapBytes == Utf8(scripts[1].chunk)
RECURSIVE ChunksIn(_)
ChunksIn(lines) ==
    IF lines = <<>> THEN <<>>
    ELSE (IF lines[1] # <<>> /\ lines[1][1] = ChunkHead
          THEN <<Substring(lines[1], 1, Len(lines[1]) - 1)>> ELSE <<>>)
         \o ChunksIn(Tail(lines))
RECURSIVE Concat(_)
Concat(texts) == IF texts = <<>> THEN <<>> ELSE texts[1] \o Concat(Tail(texts))

\* C29: the hex chunks of the script are, in order, the hex text of the
\* payload, each of even length; after the lines of k chunks have run the
\* offset bi_ is the number of bytes of those chunks and b_ starts with
\* those bytes; after the lines of all chunks b_ is the payload and bi_ its
\* length.
C29_ScriptRebuildsPayload ==
    LET chunks == ChunksIn(ex.lines)
        ran == Len(wire)
        done == (ran - 1) \div 4
    IN  /\ Concat(chunks) = HexStr(WrapBytes)
        /\ \A k \in DOMAIN chunks : Len(chunks[k]) % 2 = 0 /\ Len(chunks[k]) > 0
        /\ (ran >= 1 /\ ran <= 1 + 4 * Len(chunks) /\ (ran - 1) % 4 = 0) =>
              /\ dev.b # Null
              /\ Len(dev.b[1]) = Len(WrapBytes)
              /\ dev.bi = Len(Concat(SubSeq(chunks, 1, done))) \div 2
              /\ SubSeq(dev.b[1], 1, dev.bi) = SubSeq(WrapBytes, 1, dev.bi)
        /\ ran = 1 + 4 * Len(chunks) =>
              dev.b = Some(WrapBytes) /\ dev.bi = Len(WrapBytes)

\* C29 witness: the lines of three chunks have run, the last chunk shorter
\* than the others.
C29_ThreeChunksDecoded ==
    /\ ex.pc = "lines"
    /\ Len(WrapBytes) = 2 * HalfChunk + 1
    /\ Len(wire) = 13
    /\ dev.bi = Len(WrapBytes)
    /\ dev.b = Some(WrapBytes)

-----------------------------------------------------------------------------
(* Claims about calls that share the connection *)

\* C21 (as claimed): at most one call is outstanding; no text is written
\* while another call is outstanding; no two readUntilPrompt calls have a
\* consumer registered at once.
C21_OneCallOutstanding ==
    /\ Cardinality(Outstanding) <= 1
    /\ \A k \in DOMAIN wire : wire[k].during = {}
    /\ Cardinality(bufferConsumers) <= 1

\* a key of the terminal was written between the line of a sendLine call
\* and its prompt
C21_RawWrittenDuringSendLine ==
    \E k \in DOMAIN wire :
        /\ senders[wire[k].by].kind = "sendRaw"
        /\ wire[k].during # {}

\* C27: an operation on the consumer of a call leaves the buffer, the
\* Background Reader and the position of every other consumer as they are;
\* a readWithTimeout that times out leaves its own position too.
C27_ConsumersOnlyObserve ==
    [][\A i \in DOMAIN senders :
          senders'[i].polls # senders[i].polls =>
              /\ serialBuffer' = serialBuffer
              /\ backgroundReadActive' = backgroundReadActive
              /\ loops' = loops
              /\ \A c \in DOMAIN consumers \ {senders[i].consumer} :
                    c \in DOMAIN consumers' /\ consumers'[c] = consumers[c]
              /\ (/\ senders'[i].scan.retryCount > senders[i].scan.retryCount
                  /\ senders[i].consumer \in DOMAIN consumers') =>
                    consumers'[senders[i].consumer] = consumers[senders[i].consumer]]_vars

\* C27 witness: two calls hold consumers at different positions, one of
\* them after a read, with chunks in the buffer.
C27_TwoConsumersApart ==
    \E i, j \in DOMAIN senders :
        /\ senders[i].pc = "scan" /\ senders[j].pc = "scan"
        /\ senders[i].polls > 0
        /\ consumers[senders[i].consumer] > consumers[senders[j].consumer]
        /\ serialBuffer # <<>>

-----------------------------------------------------------------------------
(* Claims about the handles and the flags of the controller *)

\* C34 (as claimed): a connected controller has its reader, its writer and
\* its port.
C34_ConnectedHasHandles ==
    connected => (reader # 0 /\ writer # 0 /\ port # 0)

\* C34 (what the code ensures): connect leaves a connected controller with
\* all three handles.
C34_ConnectLeavesHandles ==
    [][(~connected /\ connected') => (reader' # 0 /\ writer' # 0 /\ port' # 0)]_vars

\* a disconnect waits for the port to close, the writer cleared and the
\* controller connected: executeCodeRaw passes its test of line 425 and
\* calls write on null
C34_WriterClearedWhileConnected ==
    /\ disc.pc = "portClose"
    /\ connected
    /\ writer = 0

\* C35 (as claimed): when a disconnect call ends, by return or by throw,
\* the controller is not connected and the buffer and the registry are
\* empty.
C35_DisconnectedAfterDisconnect ==
    [][(disc.pc \notin {"done", "threw"} /\ disc'.pc \in {"done", "threw"}) =>
          /\ ~connected'
          /\ serialBuffer' = <<>>
          /\ bufferConsumers' = {}]_vars

\* C35 (what the code ensures): the same for a call that returns.
C35_DisconnectedAfterReturn ==
    [][(disc.pc # "done" /\ disc'.pc = "done") =>
          /\ ~connected'
          /\ serialBuffer' = <<>>
          /\ bufferConsumers' = {}]_vars

\* a disconnect call threw and the controller is still connected
C35_ThrewStillConnected ==
    disc.pc = "threw" /\ connected

\* C36 (as claimed): while the controller is connected with a reader and
\* backgroundReadActive is set, a loop is running; and a connect that
\* succeeds leaves a loop reading its reader.
C36_ActiveMeansLoopRunning ==
    /\ (connected /\ reader # 0 /\ backgroundReadActive) => Running # {}
    /\ (connected /\ reader # 0 /\ conn.pc = "idle" /\ conn.result = "true"
          /\ streams[reader] = "open") =>
         \E l \in DOMAIN loops : loops[l].pc = "read" /\ loops[l].rd = reader

\* C36 (what the code ensures): a loop is started by the connect that finds
\* the flag cleared.
C36_LoopStartedWhenFlagClear ==
    [][(~connected /\ connected' /\ ~backgroundReadActive) =>
          /\ backgroundReadActive'
          /\ Len(loops') = Len(loops) + 1
          /\ loops'[Len(loops')] = [pc |-> "read", rd |-> reader']]_vars

\* C31 (as claimed): a chunk stored after sendLine handed its line to the
\* writer lies after the position its consumer starts with, so the scanner
\* of the call sees it.
C31_NoChunkBeforeCursor ==
    \A i \in DOMAIN senders :
        (senders[i].pc = "scan" /\ senders[i].polls = 0) =>
            \A k \in DOMAIN serialBuffer :
                serialBuffer[k].n > senders[i].since =>
                    k > consumers[senders[i].consumer]

\* C31 (what the code ensures): the consumer of a call starts at the end of
\* the buffer as it is when the write is done.
C31_CursorStartsAtEnd ==
    [][\A i \in DOMAIN senders :
          (senders[i].pc = "write" /\ senders'[i].pc = "scan") =>
              consumers'[senders'[i].consumer] = Len(serialBuffer)]_vars

-----------------------------------------------------------------------------
(* Claims about the end of readUntilPrompt *)

\* C32: every iteration of a running readUntilPrompt consumes new data or
\* counts an empty poll; a call that has had two empty polls in a row is
\* not running; and every call that runs returns.
C32_CallEnds ==
    /\ [][(rup.status = "running" /\ rup' # rup) =>
             \/ Len(received') > Len(received)
             \/ rup'.retryCount = rup.retryCount + 1]_vars
    /\ [][(rup.status = "running" /\ received' = received) =>
             \/ rup' = rup
             \/ rup'.retryCount = rup.retryCount + 1]_vars
    /\ [](rup.status = "running" => emptyRun <= 1)
    /\ (rup.status = "running" ~> rup.status \in {"returned", "null"})

\* the device sent text and went silent, and the call returned null at the
\* second empty poll
C32_NullAfterSilence ==
    /\ rup.status = "null"
    /\ received # <<>>
    /\ emptyRun = 2

-----------------------------------------------------------------------------
(* Claims about the retry of executeCodeRaw *)

RECURSIVE DevAfter(_, _)
\* the interpreter d after the writes w
DevAfter(d, w) ==
    IF w = <<>> THEN d ELSE DevAfter(DevReact(d, w[1]).dev, Tail(w))

\* what the interpreter did with the write before the last one
BeforeLast ==
    LET d == DevAfter(DevFresh(<<>>), SubSeq(wire, 1, Len(wire) - 2))
        text == wire[Len(wire) - 1]
    IN  DevLine(d, Substring(text, 0, Len(text) - 2))

\* C33 (as claimed): when a further attempt of a line has been written, the
\* remote had raised an exception on the attempt before it.
C33_RetryOnlyAfterRejection ==
    (exLog # <<>> /\ exLog[Len(exLog)].attempt > 0) => BeforeLast.out = TracebackText

\* an upload without a failed chunk has ended and the remote file holds the
\* payload twice
C33_PayloadWrittenTwice ==
    /\ up.pc = "done"
    /\ up.failures = 0
    /\ up.code = <<"a">>
    /\ MainPy \in DOMAIN dev.files
    /\ dev.files[MainPy] = Utf8(<<"a", "a">>)

-----------------------------------------------------------------------------
(* Claims about the browser file store *)

\* the files the editor has shown and does not show now
Left ==
    {k \in DOMAIN fileManager.files :
        /\ fileManager.files[k].name \in DOMAIN fileManager.shown
        /\ fileManager.currentFile # Some(fileManager.files[k].name)}

\* C37 (as claimed): every file the editor has stopped showing holds the
\* last content the editor showed for it.
C37_FilesHoldLastShown ==
    \A k \in Left :
        fileManager.files[k].content = fileManager.shown[fileManager.files[k].name]

\* C37 (what the code ensures): when the editor goes from one file to
\* another file, the file it leaves holds what the editor showed.
C37_SwitchPersists ==
    [][\A name \in Names(fileManager.files) \cap Names(fileManager'.files) :
          (/\ fileManager.currentFile = Some(name)
           /\ fileManager'.currentFile # Null
           /\ fileManager'.currentFile # Some(name)) =>
              ContentOf(fileManager'.files, name) = fileManager.editor[1].value]_vars

\* C37 (what the code ensures): a step that does not take the editor from
\* a file to an example keeps every file left with the last content shown.
C37_KeptByFileManager ==
    [][(/\ C37_FilesHoldLastShown
        /\ ~(/\ fileManager.currentFile # Null
             /\ fileManager'.currentFile = Null
             /\ fileManager'.editor[1].readOnly)) => C37_FilesHoldLastShown']_vars

\* the editor shows an example and a file has lost what was typed in it
C37_EditLostToExample ==
    /\ fileManager.currentFile = Null
    /\ fileManager.editor # Null
    /\ fileManager.editor[1].readOnly
    /\ \E k \in Left :
         fileManager.files[k].content # fileManager.shown[fileManager.files[k].name]

=============================================================================
